---- MODULE Spec2Model ----
(***************************************************************************)
(* InboxHunter automation: the pipeline orchestrator (InboxHunterBot.run,  *)
(* _process_url, _record_result) and the per-URL agent loop                *)
(* (AIAgentOrchestrator.execute_signup and the helpers it calls).          *)
(*                                                                         *)
(* The browser, the pages, the LLM transport, the CAPTCHA solver and the   *)
(* user asking for a stop are the environment: every value they hand to    *)
(* the program is drawn with \E from a small set.  The program's own code  *)
(* is translated branch by branch.                                         *)
(***************************************************************************)
EXTENDS Integers, Sequences, FiniteSets, TLC

\* ------------------------------------------------------------------ bounds
\* Length of the URL list handed to run().
NumUrls == 6
\* settings.max_signups of the run.
MaxSignups == 2
\* Position of the URL that may already have a row in the store.
KnownUrl == 4
\* Steps during which the planner of a busy, errors or plain page may
\* answer anything but `complete`.
QuickSteps == 3
\* Steps during which the planner of the form page may answer anything but
\* `complete`.
FormSteps == 7
\* The same for the phone page.
PhoneSteps == 5
\* Steps of a plain page at which the observation can fail.
LoadingSteps == 4
\* Rows the processed_urls table may hold while add_processed_url is studied.
MaxRows == 3
\* Runs of the bot over the queue, one after the other.
MaxRuns == 4
\* Last steps of the late page at which its CAPTCHA message can show.
LateSteps == 3

\* ------------------------------------------------------- program constants
max_steps == 30
max_failures == 5
CooldownSeconds == 60
max_captcha_attempts == 2
StuckErrorCount == 3
StuckWindow == 4
StuckSubmits == 4
NoFormStep == 15
FailureWindow == 3
FailureLimit == 5
PhoneWindow == 6
PhoneLoopCount == 3
PhoneLoopMin == 4
MaxPolls == 24
PollSeconds == 5
max_retries == 3
BackoffSeconds == 10

\* settings.batch_planning is drawn in Init; the solver key is configured.
CaptchaKeyConfigured == TRUE

\* ---------------------------------------------------------------- strings
\* A string the code searches for keywords is modelled by the set of the
\* keywords it contains, so `kw in text` is membership in KeywordsIn(text).
KeywordsIn(text) ==
    CASE text = "button:has-text('Subscribe')" -> {"subscribe"}
      [] text = "a:has-text('Get Started')"    -> {"get", "start", "get started"}
      [] text = "submit the form"              -> {"submit"}
      [] text = "open the signup form"         -> {"signup"}
      [] text = "please complete the captcha"  -> {"captcha"}
      [] text = "button:has-text('Join')"      -> {"join"}
      [] text = "input[type='checkbox'][name='subscribe']" ->
            {"type='checkbox'", "input[type='checkbox']", "subscribe"}
      [] text = "input[type='radio'][value='Yes']" ->
            {"type='radio'", "input[type='radio']"}
      [] text = "select the option and continue" -> {"continue"}
      [] text = "#phone"                       -> {"phone"}
      [] text = "fill the phone field"         -> {"phone"}
      [] text = "Auto-generated valid phone for detected country +1" ->
            {"phone"}
      [] text = "https://site.test/thank-you"  -> {"thank"}
      [] text = "Thank you for signing up!"    ->
            {"thank you for signing up", "thank"}
      [] text = "Welcome to our newsletter"    -> {"welcome"}
      [] text = "Invalid email address. Thank you for your patience." ->
            {"invalid", "thank"}
      [] OTHER                                 -> {}

submit_keywords == {"submit", "sign up", "signup", "register", "join",
                    "continue", "next", "create account", "subscribe", "send"}
action_verbs == {"try", "get", "start", "begin", "discover", "explore",
                 "learn", "see", "watch", "view", "find", "request", "book",
                 "schedule", "contact", "connect", "launch", "unlock", "grab",
                 "claim", "access"}
urgency_words == {"now", "today", "free", "instant", "demo", "trial", "more"}
success_url_patterns == {"thank", "success", "confirm", "welcome", "registered"}

\* The phrase lists of _detect_success_indicator.
strong_success_patterns ==
    {"thank you for signing up", "thanks for signing up",
     "thank you for registering", "thanks for registering",
     "registration successful", "signup successful", "sign up successful",
     "successfully registered", "successfully signed up", "account created",
     "account has been created", "welcome! your account",
     "welcome to your account", "check your email for confirmation",
     "check your inbox", "verification email sent",
     "confirmation email sent", "we've sent you an email",
     "we have sent you an email", "please verify your email",
     "please check your email", "you're all set", "you are all set",
     "you're in!", "you are in!", "registration complete", "signup complete",
     "sign up complete", "congratulations! you", "welcome aboard",
     "you've been added", "you have been added", "subscription confirmed",
     "you're subscribed", "you are subscribed", "successfully subscribed",
     "thank you for subscribing", "thanks for subscribing"}
url_change_keywords == {"thank", "success", "confirm", "welcome", "complete"}
form_gone_keywords == {"thank", "success", "confirm", "welcome"}
simple_keywords == {"thank", "success", "confirm", "welcome"}
negative_patterns ==
    {"error", "failed", "invalid", "required field", "please fill",
     "please enter", "please provide", "must be", "cannot be empty",
     "is required", "try again", "forgot password", "sign in", "log in"}

LandingUrl == "https://site.test/landing"
ThankYouUrl == "https://site.test/thank-you"
PageUrls == {LandingUrl, ThankYouUrl}

ErrInvalid == "invalid phone number"
ErrCaptcha == "please complete the captcha"
\* page_state["error_messages"]: the lists a snapshot may carry.  An element
\* that matches two of the error selectors is listed twice.
ErrorLists == {<<>>, <<ErrInvalid>>, <<ErrCaptcha>>, <<ErrInvalid, ErrInvalid>>}

\* ------------------------------------------------------- planner answers
Act(t, s, r) == [action_type |-> t, selector |-> s, reasoning |-> r]
FillEmail == Act("fill_field", "#email", "fill the email field")
ClickSubscribe == Act("click", "button:has-text('Subscribe')", "submit the form")
ClickGetStarted == Act("click", "a:has-text('Get Started')", "open the signup form")
WaitSettle == Act("wait", "", "page is settling")
WaitConfirm == Act("wait", "", "waiting for confirmation")
CompleteAct == Act("complete", "", "signup confirmed")
ClickJoin == Act("click", "button:has-text('Join')", "submit the form")
ClickNoSelector == Act("click", "", "click the button")
FillPhone == Act("fill_field", "#phone", "fill the phone field")
FillCountryCode == Act("fill_field", "#countryCode", "set the country code")
\* The fill _reason_next_action builds itself when the last actions keep
\* coming back to the phone field.
AutoPhone == Act("fill_field", "#phone",
                 "Auto-generated valid phone for detected country +1")

\* AgentAction.value: the credentials' e-mail and phone, and the number
\* _generate_phone_for_country makes up.
ActionValue(action) ==
    CASE action = FillEmail -> "user@example.test"
      [] action = FillPhone -> "5551234567"
      [] action = AutoPhone -> "2015550123"
      [] OTHER -> ""

\* (next_action.reasoning or '')[:30]
First30(reasoning) ==
    IF reasoning = "Auto-generated valid phone for detected country +1"
       THEN "Auto-generated valid phone for"
       ELSE reasoning
PageLoading == Act("wait", "", "Page is loading")
IdleActions == {WaitSettle, WaitConfirm}
ActiveActions == {FillEmail, ClickSubscribe, ClickGetStarted}

\* The URL list handed to run(): the page behind each position.
\*   busy    a site that may fail to load, hide its form behind a button,
\*           show overlays, land elsewhere after a click; any planner answer
\*   errors  a form that keeps showing validation or CAPTCHA messages
\*   idle    nothing to fill: the planner waits, for up to max_steps steps
\*   plain   an e-mail form with a submit button
\* Three more pages are not in the list of the run; execute_signup is studied
\* on them by AgentSpec.
\*   form    an e-mail form with two submit buttons, whose fills and
\*           clicks may fail, for up to FormSteps steps
\*   phone   an e-mail and a phone field; the planner may also ask for a
\*           click without naming a selector
\*   late    an idle page that starts to show a CAPTCHA message in the last
\*           LateSteps steps
FormUrl == NumUrls + 1
PhoneUrl == NumUrls + 2
LateUrl == NumUrls + 3
LoginUrl == KnownUrl + 1
PageKind(i) ==
    CASE i = 1 -> "busy"
      [] i = 2 -> "errors"
      [] i = 3 -> "idle"
      [] i = LoginUrl -> "login"
      [] i = FormUrl -> "form"
      [] i = PhoneUrl -> "phone"
      [] i = LateUrl -> "late"
      [] OTHER -> "plain"

\* ------------------------------------------------------------ snapshots
\* What _detect_success_indicator reads of the page: the visible text, the
\* number of forms now and before the submit, the overlay the page shows.
StrongText == "Thank you for signing up!"
WeakText == "Welcome to our newsletter"
NegativeText == "Invalid email address. Thank you for your patience."
VisibleTexts == {"", StrongText, WeakText, NegativeText}

Overlay(found, captcha, success_text, recommendation) ==
    [found |-> found, hasCaptcha |-> captcha, hasSuccessText |-> success_text,
     hasRecommendation |-> recommendation]
NoOverlay == Overlay(FALSE, FALSE, FALSE, FALSE)
CaptchaOverlay == Overlay(TRUE, TRUE, TRUE, FALSE)
SuccessOverlay == Overlay(TRUE, FALSE, TRUE, FALSE)

Snapshot(text, gone, overlay) ==
    [visible_text |-> text, form_gone |-> gone, overlay |-> overlay]
BlankSnapshot == Snapshot("", FALSE, NoOverlay)

\* _detect_success_indicator: the strong phrases, then after a submit the
\* URL change, the vanished form and the overlay, then the simple keywords
\* behind the negative patterns.  `st` and `url` are the agent state and
\* the page URL when the snapshot is taken.
detect_success_indicator(snap, st, url) ==
    LET kws == KeywordsIn(snap.visible_text)
        has_negative == kws \cap negative_patterns # {}
        has_simple_keyword == kws \cap simple_keywords # {}
    IN  IF kws \cap strong_success_patterns # {}
           THEN [is_success |-> TRUE, reason |-> "strong_pattern"]
        ELSE IF /\ st.form_submitted /\ st.submit_attempts > 0
                /\ st.url_before_submit # "" /\ url # st.url_before_submit
                /\ kws \cap url_change_keywords # {}
           THEN [is_success |-> TRUE, reason |-> "url_changed"]
        ELSE IF /\ st.form_submitted /\ st.submit_attempts > 0
                /\ snap.form_gone
                /\ kws \cap form_gone_keywords # {}
           THEN [is_success |-> TRUE, reason |-> "form_disappeared"]
        ELSE IF /\ st.form_submitted /\ st.submit_attempts > 0
                /\ snap.overlay.found /\ ~snap.overlay.hasCaptcha
                /\ (snap.overlay.hasSuccessText
                        \/ snap.overlay.hasRecommendation)
           THEN [is_success |-> TRUE, reason |-> "overlay"]
        ELSE IF /\ has_simple_keyword /\ ~has_negative
                /\ st.form_submitted /\ Cardinality(st.fields_filled) >= 2
           THEN [is_success |-> TRUE, reason |-> "simple_keyword"]
        ELSE [is_success |-> FALSE, reason |-> "none"]

VARIABLES
    rpc,                  \* position of run() / _process_url / execute_signup
    idx,                  \* 1-based position in the URL list (enumerate(urls, 1))
    processed,            \* run(): processed
    consecutive_failures, \* run(): consecutive_failures
    stats,                \* InboxHunterBot.stats
    db,                   \* processed_urls table: url -> status of its row
    scraped,              \* scraped_urls table: url -> its processed column
    recorded,             \* arguments of the last _record_result call
    batch_planning,       \* settings.batch_planning
    data_source,          \* source of the list's items: "csv" or "database"
    call,                 \* a function of the program applied on its own
    stop_requested,       \* InboxHunterBot._stop_requested
    ext_stop,             \* what the external stop callback answers
    stop_file,            \* stop_signal.txt exists
    stop_seen,            \* polling point where _stop_check first answered True
    stop_idx,             \* list position being processed at that moment
    state,                \* AgentState of the current agent
    agent,                \* AIAgentOrchestrator attributes outside AgentState
    result,               \* dict returned by execute_signup
    llm_called,           \* an LLM request was sent for the URL in progress
    llm_log,              \* requests and sleeps of the last planner call
    attempts_before,      \* stats.total_attempts when _process_url was entered
    slept,                \* seconds spent in the cooldown sleep so far
    loop_iterations,      \* iterations of the agent loop begun for this URL
    obs,                  \* what the iteration that just ended saw and did
    session_costs,        \* LLMPageAnalyzer._session_costs: models with calls
    run_end               \* what the finally clause of run() has done

vars == <<rpc, idx, processed, consecutive_failures, stats, db, scraped,
          recorded, batch_planning, data_source, call, stop_requested,
          ext_stop, stop_file, stop_seen, stop_idx, state, agent, result,
          llm_called, llm_log, attempts_before, slept, loop_iterations,
          obs, session_costs, run_end>>

fixedVars == <<batch_planning, data_source, call>>
costVars == <<session_costs, run_end>>

runVars == <<idx, processed, consecutive_failures>>
stopVars == <<stop_requested, ext_stop, stop_file, stop_seen, stop_idx>>
agentVars == <<state, agent, result, llm_called, llm_log, loop_iterations,
               obs>>

Urls == 1..NumUrls
NoRecord == [url |-> 0, status |-> "", fields_filled |-> {},
             error_category |-> ""]

\* ------------------------------------------------------------- AgentState
InitState ==
    [current_step |-> 1,
     complete |-> FALSE,
     success |-> FALSE,
     fields_filled |-> {},
     submit_attempts |-> 0,
     click_attempts_after_fill |-> 0,
     form_submitted |-> FALSE,
     captcha_attempted |-> FALSE,
     captcha_solved |-> FALSE,
     url_before_submit |-> "",
     error_messages_seen |-> <<>>,
     recent_actions |-> <<>>,
     stuck_loop_detected |-> FALSE,
     llm_failure_reason |-> "",
     last_success |-> <<>>,
     n_failed |-> 0,
     fill_failed |-> FALSE,
     fill_values |-> {},
     fills_recorded |-> {},
     recent_phone |-> <<>>,
     clicked_after_fill |-> FALSE,
     n_actions |-> 0]

\* solver_submissions and solver_polls keep what _solve_with_2captcha did:
\* the challenges sent to the in-endpoint for this URL and the requests the
\* last of them made to the res-endpoint.
InitAgent ==
    [captcha_solve_attempts |-> 0,
     last_llm_error |-> "",
     page_url |-> LandingUrl,
     solver_submissions |-> 0,
     solver_polls |-> 0]

NoResult ==
    [returned |-> FALSE, success |-> FALSE, interrupted_by_stop |-> FALSE,
     skipped_reason |-> "", error_category |-> "", fields_filled |-> {}]

\* Nothing observed: no iteration has ended since the agent was created or
\* since the loop head was passed.
\*   action, ok    the action executed and the executor's verdict
\*   guard         "fired" / "passed": the stuck-loop check ran and found a
\*                 reason or none; "skipped": the iteration ended before it
\*   exit          how the iteration ended: next, continue, break, raised
\*   snapshot      the page the iteration observed
\*   has_success   page_state["has_success_indicator"] of that snapshot
NoObs ==
    [action |-> Act("", "", ""), ok |-> FALSE, guard |-> "none", exit |-> "",
     snapshot |-> BlankSnapshot, has_success |-> FALSE]

\* No request sent, no sleep made.  outcome: the call was answered, gave up
\* rate_limited, or was answered with a response the parser discarded.
NoLlmLog == [requests |-> 0, sleeps |-> <<>>, outcome |-> "none"]

\* No function applied on its own.
NoCall == [fn |-> "none"]

\* The finally clause of run() has not run; api_sessions holds no row.
NoRunEnd == [summary_printed |-> FALSE, api_sessions |-> {}]

\* self.stats, and with it the URLs whose row this run has written
\* (rows_written, kept for the accounting of the run; the code has no such
\* key).
InitStats ==
    [total_attempts |-> 0, successful_signups |-> 0, failed_attempts |-> 0,
     duplicates_skipped |-> 0, rows_written |-> {}]

\* The store may already hold a row, of any status, for a URL of the list;
\* the queue hands out its first max_signups URLs, which come before
\* KnownUrl, so the row is drawn for the CSV list only.
ProcessedStatuses == {"success", "failed", "skipped"}

Init ==
    /\ rpc = "loop_top"
    /\ idx = 1
    /\ processed = 0
    /\ consecutive_failures = 0
    /\ stats = InitStats
    /\ data_source \in {"csv", "database"}
    /\ \E old \in {0, KnownUrl}, s \in ProcessedStatuses :
          /\ data_source = "database" => old = 0
          /\ db = [u \in Urls |-> IF u = old THEN s ELSE "none"]
    /\ scraped = [u \in Urls |-> 0]
    /\ recorded = NoRecord
    /\ batch_planning \in BOOLEAN
    /\ call = NoCall
    /\ stop_requested = FALSE
    /\ ext_stop = FALSE
    /\ stop_file = FALSE
    /\ stop_seen = "none"
    /\ stop_idx = 0
    /\ state = InitState
    /\ agent = InitAgent
    /\ result = NoResult
    /\ llm_called = FALSE
    /\ llm_log = NoLlmLog
    /\ attempts_before = 0
    /\ slept = 0
    /\ loop_iterations = 0
    /\ obs = NoObs
    /\ session_costs = {}
    /\ run_end = NoRunEnd

\* ------------------------------------------------------------ stop signal
\* _stop_check(): the flag, then the callback, then the stop file; a stop
\* file that is found is cached in the flag.
StopCheck == stop_requested \/ ext_stop \/ stop_file

StopFlagAfterCheck == stop_requested \/ (~ext_stop /\ stop_file)

\* A poll at polling point `point`: the flag is cached and the first point
\* that sees the stop is remembered.
Poll(point) ==
    /\ stop_requested' = StopFlagAfterCheck
    /\ UNCHANGED <<ext_stop, stop_file>>
    /\ IF StopCheck /\ stop_seen = "none"
          THEN stop_seen' = point /\ stop_idx' = idx
          ELSE UNCHANGED <<stop_seen, stop_idx>>

\* The user asks for a stop: stop() (signal handler), the external callback
\* starts answering True, or the stop file is created.  A request is never
\* withdrawn.
RequestStop ==
    /\ rpc # "done"
    /\ ~StopCheck
    /\ \E kind \in {"stop", "callback", "file"} :
          /\ stop_requested' = (kind = "stop")
          /\ ext_stop' = (kind = "callback")
          /\ stop_file' = (kind = "file")
    /\ UNCHANGED <<rpc, runVars, stats, db, scraped, recorded, fixedVars, costVars, stop_seen,
                   stop_idx, agentVars, attempts_before, slept>>

\* ------------------------------------------------------------ persistence
\* A lookup that counts only success rows, for contrast.
OnlySuccessIsProcessed(url) == db[url] = "success"

\* DatabaseOperations.is_url_processed: a row of any status counts.
is_url_processed(url) == db[url] # "none"

\* DatabaseOperations.add_processed_url: update the row of the URL if there
\* is one, insert it otherwise.
add_processed_url(table, url, status) == [table EXCEPT ![url] = status]

\* failed_attempts += 1 for a failed URL.
RecordStats(st, status) ==
    IF status = "failed"
       THEN [st EXCEPT !.failed_attempts = @ + 1]
       ELSE st

\* The test on the item's source with the scraper's name, for contrast.
FromScraper(source) == source = "meta"

\* if source == "database"
FromQueue(source) == source = "database"

\* ScrapedURL.processed = 1 for the row of the URL.
mark_url_processed(table, url) == [table EXCEPT ![url] = 1]

\* DatabaseOperations.get_unprocessed_urls(limit): the URLs whose row has
\* processed == 0, oldest first, at most `limit` of them.  Rows are scraped
\* in the order of the URLs.
RECURSIVE UnprocessedFrom(_, _, _)
UnprocessedFrom(table, u, limit) ==
    IF u > NumUrls \/ limit = 0 THEN <<>>
    ELSE IF table[u] = 0
       THEN <<u>> \o UnprocessedFrom(table, u + 1, limit - 1)
       ELSE UnprocessedFrom(table, u + 1, limit)

get_unprocessed_urls(table, limit) == UnprocessedFrom(table, 1, limit)

\* _get_urls(): the rows of the CSV file, or the scraped queue's first
\* max_signups unprocessed URLs as it stood when the run began.
UrlList ==
    IF FromQueue(data_source)
       THEN get_unprocessed_urls([u \in Urls |-> 0], MaxSignups)
       ELSE [i \in 1..NumUrls |-> i]

\* InboxHunterBot._record_result as _process_url calls it: the table, the
\* row written and the stats afterwards (successful_signups += 1 follows the
\* call that records a success).
RecordResult(url, status, fields, category) ==
    /\ db' = add_processed_url(db, url, status)
    /\ scraped' = IF FromQueue(data_source)
                     THEN mark_url_processed(scraped, url)
                     ELSE scraped
    /\ recorded' = [url |-> url, status |-> status, fields_filled |-> fields,
                    error_category |-> category]
    /\ stats' = [RecordStats(stats, status) EXCEPT
                     !.successful_signups =
                        IF status = "success" THEN @ + 1 ELSE @,
                     !.rows_written = @ \cup {url}]

\* An entry to _process_url that counts nothing, for contrast.
EnterUncounted(st) == st

\* self.stats["total_attempts"] += 1 on entry to _process_url, and the
\* -= 1 of every path that leaves the URL pending.
CountAttempt(st) == [st EXCEPT !.total_attempts = @ + 1]

\* A pending path that forgets the -= 1, for contrast.
KeepAttempt(st) == st

UncountAttempt(st) == [st EXCEPT !.total_attempts = @ - 1]

\* ------------------------------------------------------------------ run()
\* run() without the reset of consecutive_failures after a success, for
\* contrast.
AfterProcessUrlKeepingCount(ret) ==
    CASE ret = "None" ->
            /\ rpc' = "summary"
            /\ UNCHANGED <<idx, processed, consecutive_failures>>
      [] ret = "quick_skip" ->
            /\ rpc' = "loop_top"
            /\ idx' = idx + 1
            /\ consecutive_failures' = 0
            /\ UNCHANGED processed
      [] ret = "True" ->
            /\ rpc' = "loop_top"
            /\ idx' = idx + 1
            /\ processed' = processed + 1
            /\ UNCHANGED consecutive_failures
      [] ret = "False" ->
            /\ rpc' = "loop_top"
            /\ idx' = idx + 1
            /\ consecutive_failures' = consecutive_failures + 1
            /\ UNCHANGED processed

\* What run() does with the value _process_url returned (lines 252-268).
AfterProcessUrl(ret) ==
    CASE ret = "None" ->
            /\ rpc' = "summary"
            /\ UNCHANGED <<idx, processed, consecutive_failures>>
      [] ret = "quick_skip" ->
            /\ rpc' = "loop_top"
            /\ idx' = idx + 1
            /\ consecutive_failures' = 0
            /\ UNCHANGED processed
      [] ret = "True" ->
            /\ rpc' = "loop_top"
            /\ idx' = idx + 1
            /\ processed' = processed + 1
            /\ consecutive_failures' = 0
      [] ret = "False" ->
            /\ rpc' = "loop_top"
            /\ idx' = idx + 1
            /\ consecutive_failures' = consecutive_failures + 1
            /\ UNCHANGED processed

\* The comparison `>` in place of `>=`, for contrast.
ExceededMaxSignups == processed > MaxSignups

\* if processed >= self.config.settings.max_signups
ReachedMaxSignups == processed >= MaxSignups

\* The comparison `>` in place of `>=`, for contrast.
PastMaxFailures == consecutive_failures > max_failures

\* if consecutive_failures >= max_failures
ReachedMaxFailures == consecutive_failures >= max_failures

\* browser.initialize() or _get_urls() raises before the first URL: the
\* except clause of run() re-raises and the finally clause runs.
StartupFailure ==
    /\ rpc = "loop_top"
    /\ idx = 1
    /\ rpc' = "summary"
    /\ UNCHANGED <<runVars, stats, db, scraped, recorded, fixedVars, costVars,
                   stopVars, agentVars, attempts_before, slept>>

\* The loop head without its stop check, for contrast.
LoopHeadIgnoringStop ==
    IF ReachedMaxSignups THEN "summary"
    ELSE IF ReachedMaxFailures THEN "cooldown"
    ELSE "dedupe"

\* The checks at the head of the for loop, in the code's order: stop,
\* max_signups, consecutive failures.
LoopHeadChecks ==
    IF StopCheck THEN "summary"
    ELSE IF ReachedMaxSignups THEN "summary"
    ELSE IF ReachedMaxFailures THEN "cooldown"
    ELSE "dedupe"

\* Head of the for loop: the list is exhausted, or the checks decide.
RunNextUrl ==
    /\ rpc = "loop_top"
    /\ IF idx > Len(UrlList)
          THEN /\ rpc' = "summary"
               /\ UNCHANGED stopVars
          ELSE /\ Poll("run_loop")
               /\ rpc' = LoopHeadChecks
    /\ UNCHANGED <<runVars, stats, db, scraped, recorded, fixedVars, costVars, agentVars,
                   attempts_before, slept>>

\* await asyncio.sleep(60); consecutive_failures = 0
Cooldown ==
    /\ rpc = "cooldown"
    /\ slept' = slept + CooldownSeconds
    /\ consecutive_failures' = 0
    /\ rpc' = "dedupe"
    /\ UNCHANGED <<idx, processed, stats, db, scraped, recorded, fixedVars, costVars,
                   stopVars, agentVars, attempts_before>>

\* is_url_processed(url) -> continue; otherwise _process_url starts: the
\* attempt is counted and the stop signal is polled before navigating.
CheckDuplicate ==
    /\ rpc = "dedupe"
    /\ IF is_url_processed(idx)
          THEN /\ stats' = [stats EXCEPT !.duplicates_skipped = @ + 1]
               /\ idx' = idx + 1
               /\ rpc' = "loop_top"
               /\ UNCHANGED <<processed, consecutive_failures, stopVars,
                              attempts_before, recorded>>
          ELSE /\ attempts_before' = stats.total_attempts
               /\ recorded' = NoRecord
               /\ Poll("before_url")
               /\ IF StopCheck
                     THEN /\ stats' = UncountAttempt(CountAttempt(stats))
                          /\ AfterProcessUrl("None")
                     ELSE /\ stats' = CountAttempt(stats)
                          /\ rpc' = "navigate"
                          /\ UNCHANGED runVars
    /\ UNCHANGED <<db, scraped, fixedVars, costVars, agentVars, slept>>

\* --------------------------------------------------------- _process_url
\* PageAnalysisResult values _analyze_page can return: a blog/article or a
\* form-behind-a-button verdict is only given when no signup form was found.
FormAnalysis ==
    [has_signup_form |-> TRUE, has_login_form |-> FALSE,
     is_blog_or_article |-> FALSE, signup_behind_button |-> FALSE]

Analyses ==
    CASE PageKind(idx) = "busy" ->
            {a \in [has_signup_form : BOOLEAN, has_login_form : BOOLEAN,
                    is_blog_or_article : BOOLEAN,
                    signup_behind_button : BOOLEAN] :
               /\ a.is_blog_or_article => ~a.has_signup_form
               /\ a.signup_behind_button => ~a.has_signup_form}
      [] PageKind(idx) = "login" ->
            {[has_signup_form |-> FALSE, has_login_form |-> TRUE,
              is_blog_or_article |-> FALSE, signup_behind_button |-> FALSE]}
      [] OTHER -> {FormAnalysis}

\* What browser.navigate and the app-store check can meet.
Navigations ==
    IF PageKind(idx) = "busy" THEN {"loaded", "failed", "raised"}
                              ELSE {"loaded"}

AppStoreChoices == IF PageKind(idx) = "busy" THEN BOOLEAN ELSE {FALSE}

\* Batch mode skips the pre-analysis and assumes a form.
BatchAnalysis ==
    [has_signup_form |-> TRUE, has_login_form |-> FALSE,
     is_blog_or_article |-> FALSE, signup_behind_button |-> FALSE]

\* The login-only test with the mode inverted, for contrast.
LoginOnlySkipInBatch(batch, analysis) ==
    batch /\ analysis.has_login_form /\ ~analysis.has_signup_form

\* if not batch_planning and analysis.has_login_form and not
\* analysis.has_signup_form
LoginOnlySkip(batch, analysis) ==
    ~batch /\ analysis.has_login_form /\ ~analysis.has_signup_form

\* _process_url records a skip and returns `ret` to run().
SkipUrl(category, ret) ==
    /\ RecordResult(idx, "skipped", {}, category)
    /\ AfterProcessUrl(ret)
    /\ UNCHANGED agentVars

\* A path that leaves the URL pending: the attempt is uncounted, nothing is
\* recorded, None goes back to run().
LeavePending ==
    /\ stats' = UncountAttempt(stats)
    /\ AfterProcessUrl("None")
    /\ UNCHANGED <<db, scraped, recorded, agentVars>>

\* AIAgentOrchestrator(...) is constructed and execute_signup is entered.
CreateAgent ==
    /\ state' = InitState
    /\ agent' = InitAgent
    /\ result' = NoResult
    /\ llm_called' = FALSE
    /\ llm_log' = NoLlmLog
    /\ loop_iterations' = 0
    /\ obs' = NoObs
    /\ rpc' = "agent_start"
    /\ UNCHANGED <<runVars, stats, db, scraped, recorded>>

\* The except clause of _process_url.
ProcessUrlException ==
    /\ Poll("exception")
    /\ IF StopCheck
          THEN LeavePending
          ELSE /\ RecordResult(idx, "failed", {}, "exception")
               /\ AfterProcessUrl("False")
               /\ UNCHANGED agentVars

\* browser.navigate(url), the app-store check, the page analysis and the
\* skips decided from it (lines 1125-1233).
Navigate ==
    /\ rpc = "navigate"
    /\ \E nav \in Navigations :
          CASE nav = "failed" ->
                  /\ Poll("navigation")
                  /\ IF StopCheck THEN LeavePending
                                  ELSE SkipUrl("load_error", "False")
            [] nav = "raised" -> ProcessUrlException
            [] nav = "loaded" ->
                  /\ UNCHANGED stopVars
                  /\ \E app_store \in AppStoreChoices,
                        analysis \in (IF batch_planning THEN {BatchAnalysis}
                                                        ELSE Analyses) :
                        IF app_store THEN SkipUrl("app_store", "False")
                        ELSE IF LoginOnlySkip(batch_planning, analysis)
                           THEN SkipUrl("login_page", "False")
                        ELSE IF analysis.is_blog_or_article
                           THEN SkipUrl("blog_article", "False")
                        ELSE IF analysis.signup_behind_button
                                /\ ~analysis.has_signup_form
                           THEN /\ rpc' = "try_navigate"
                                /\ UNCHANGED <<runVars, stats, db, scraped, recorded,
                                               agentVars>>
                        ELSE IF ~analysis.has_signup_form
                                /\ ~analysis.signup_behind_button
                           THEN SkipUrl("no_form", "False")
                        ELSE CreateAgent
    /\ UNCHANGED <<fixedVars, costVars, attempts_before, slept>>

\* _try_navigate_to_signup over the navigation buttons and what
\* _process_url does with its answer (lines 1198-1224).  The stop signal is
\* polled before each button; a stop makes the helper answer (False, None).
TryNavigate ==
    /\ rpc = "try_navigate"
    /\ Poll("navigation_button")
    /\ \E outcome \in (IF StopCheck THEN {"not_found"}
                                    ELSE {"found", "app_store", "not_found"}),
          final_has_form \in BOOLEAN :
          CASE outcome = "app_store" -> SkipUrl("app_store", "False")
            [] outcome = "found" -> CreateAgent
            [] outcome = "not_found" ->
                  IF final_has_form THEN CreateAgent
                                    ELSE SkipUrl("no_form", "False")
    /\ UNCHANGED <<fixedVars, costVars, attempts_before, slept>>

\* ------------------------------------------------- execute_signup: results
\* The dict of the early returns that leave the URL pending.
InterruptedResult(st) ==
    [returned |-> TRUE, success |-> FALSE, interrupted_by_stop |-> TRUE,
     skipped_reason |-> "", error_category |-> "",
     fields_filled |-> st.fields_filled]

\* The dict of the early returns that skip the page.
SkippedResult(reason, fields) ==
    [returned |-> TRUE, success |-> FALSE, interrupted_by_stop |-> FALSE,
     skipped_reason |-> reason, error_category |-> "", fields_filled |-> fields]

\* The except clause's dict without its category, for contrast.
UncategorisedExceptionResult ==
    [returned |-> TRUE, success |-> FALSE, interrupted_by_stop |-> FALSE,
     skipped_reason |-> "", error_category |-> "unknown",
     fields_filled |-> {}]

\* The dict built by the except clause of execute_signup.
ExceptionResult ==
    [returned |-> TRUE, success |-> FALSE, interrupted_by_stop |-> FALSE,
     skipped_reason |-> "", error_category |-> "exception",
     fields_filled |-> {}]

\* _build_failure_summary: primary_category.  The failed actions of the
\* model carry the executor's "Element not visible" (fill) and "Could not
\* click" (click) errors: the first is categorised hidden, the second falls
\* in no branch of the priority chain.
PrimaryCategory(st) ==
    IF st.llm_failure_reason # "" THEN "llm_error"
    ELSE IF st.stuck_loop_detected /\ st.error_messages_seen # <<>>
       THEN "validation_loop"
    ELSE IF st.fill_failed THEN "hidden"
    ELSE IF st.submit_attempts = 0 /\ st.fields_filled # {} THEN "no_submit"
    ELSE IF st.form_submitted /\ ~st.success THEN "no_confirmation"
    ELSE IF st.fields_filled = {} THEN "no_fields"
    ELSE "unknown"

\* has_submit_evidence of the final success validation.
HasSubmitEvidence(st) ==
    \/ st.form_submitted
    \/ st.submit_attempts > 0
    \/ st.click_attempts_after_fill > 0

\* state.success taken as it is, for contrast.
UnauditedSuccess(st) == st.success

\* final_success: state.success downgraded when there is no submit
\* evidence or no filled field.
FinalSuccess(st) ==
    /\ st.success
    /\ HasSubmitEvidence(st)
    /\ st.fields_filled # {}

\* The dict returned after the loop (lines 817-876).
FinalResult(st) ==
    [returned |-> TRUE,
     success |-> FinalSuccess(st),
     interrupted_by_stop |-> FALSE,
     skipped_reason |-> "",
     error_category |-> IF FinalSuccess(st) THEN "" ELSE PrimaryCategory(st),
     fields_filled |-> st.fields_filled]

\* ------------------------------------------------- execute_signup: helpers
LastN(s, n) == IF Len(s) <= n THEN s ELSE SubSeq(s, Len(s) - n + 1, Len(s))

\* "phone" in the selector or the reasoning of an action.
MentionsPhone(action) ==
    "phone" \in KeywordsIn(action.selector) \cup KeywordsIn(action.reasoning)

\* AgentState.add_action, with actions_taken kept as what the program reads
\* of it: the success flags of its last three entries, the number of failed
\* entries, the phone mentions of its last six entries and the
\* (selector, value) pairs of its successful fills, and whether it holds a
\* successful click made with a field filled, and n_actions its length.
\* fields_filled is the key set of the dict and fill_values its items.
add_action(st, action, ok) ==
    LET filled == action.action_type = "fill_field" /\ ok
        item == <<action.selector, ActionValue(action)>>
    IN  [st EXCEPT
            !.last_success = LastN(Append(@, ok), FailureWindow),
            !.n_failed = IF ok THEN @ ELSE @ + 1,
            !.fill_failed = @ \/ (~ok /\ action.action_type = "fill_field"),
            !.fields_filled = IF filled THEN @ \cup {action.selector} ELSE @,
            !.fill_values =
                IF filled
                   THEN {p \in @ : p[1] # action.selector} \cup {item}
                   ELSE @,
            !.fills_recorded = IF filled THEN @ \cup {item} ELSE @,
            !.recent_phone =
                LastN(Append(@, MentionsPhone(action)), PhoneWindow),
            !.clicked_after_fill =
                @ \/ (action.action_type = "click" /\ ok
                         /\ st.fields_filled # {}),
            !.n_actions = @ + 1]

\* error_messages_seen[err_text] += 1 for every message of the snapshot;
\* the dict keeps insertion order.
RECURSIVE SeeErrors(_, _)
SeeErrors(seen, errs) ==
    IF errs = <<>> THEN seen
    ELSE LET e == Head(errs)
             known == \E i \in 1..Len(seen) : seen[i].text = e
             seen1 == IF known
                         THEN [i \in 1..Len(seen) |->
                                  IF seen[i].text = e
                                     THEN [seen[i] EXCEPT !.count = @ + 1]
                                     ELSE seen[i]]
                         ELSE Append(seen, [text |-> e, count |-> 1])
         IN  SeeErrors(seen1, Tail(errs))

\* action_pattern: type, selector and the first 30 characters of the
\* reasoning.
ActionPattern(action) ==
    <<action.action_type, action.selector, First30(action.reasoning)>>

\* recent_actions.append(pattern); only its last four entries are read.
RememberPattern(recent, action) ==
    LastN(Append(recent, ActionPattern(action)), StuckWindow)

\* The three stuck-loop conditions, in the order the code tests them.
RepeatedErrors(st) ==
    {i \in 1..Len(st.error_messages_seen) :
        st.error_messages_seen[i].count >= StuckErrorCount}

PatternLoop(st) ==
    /\ Len(st.recent_actions) >= StuckWindow
    /\ LET recent == LastN(st.recent_actions, StuckWindow)
       IN  recent[1] = recent[3] /\ recent[2] = recent[4]

\* The submit count alone, whatever the URL, for contrast.
SubmitsAlone(st, url) == st.submit_attempts >= StuckSubmits

SubmitsWithoutProgress(st, url) ==
    /\ st.submit_attempts >= StuckSubmits
    /\ st.url_before_submit # ""
    /\ url = st.url_before_submit

\* stuck_reason: "" when no condition holds; for a repeated error the text
\* of the first such error in dict order is part of the reason.
StuckReason(st, url) ==
    IF RepeatedErrors(st) # {}
       THEN LET first == CHOOSE i \in RepeatedErrors(st) :
                            \A j \in RepeatedErrors(st) : i <= j
            IN  [kind |-> "repeated_error",
                 text |-> st.error_messages_seen[first].text]
    ELSE IF PatternLoop(st) THEN [kind |-> "action_loop", text |-> ""]
    ELSE IF SubmitsWithoutProgress(st, url)
       THEN [kind |-> "submit_attempts", text |-> ""]
    ELSE [kind |-> "", text |-> ""]

is_success_url(url) == KeywordsIn(url) \cap success_url_patterns # {}

\* A hand-off that leaves captcha_attempted alone, for contrast.
HandOffForgotten(st) == st

\* self.state.captcha_attempted = True before a CAPTCHA hand-off that may
\* re-enter the loop.
HandOffAttempted(st) == [st EXCEPT !.captcha_attempted = TRUE]

\* _handle_captcha: what the environment lets it achieve.
\*   not_visible   no visible CAPTCHA found: {}
\*   solver        the solving service has the token at the first poll
\*   solver_slow   the service has the token at the last poll
\*   solver_error  the service reports an error at the second poll and the
\*                 checkbox click does not work: {"skipped": True}
\*   checkbox      the challenge has no sitekey or the service is not used,
\*                 the checkbox click works
\*   unsolved      the service never has the token, the checkbox click does
\*                 not work: {"skipped": True}
\* The key test alone, for contrast.
SolverConfigured(ag) == CaptchaKeyConfigured

\* self.captcha_api_key and captcha_solve_attempts < max_captcha_attempts
SolverAvailable(ag) ==
    CaptchaKeyConfigured /\ ag.captcha_solve_attempts < max_captcha_attempts

CaptchaOutcomes(ag) ==
    {"not_visible", "checkbox", "unsolved"}
        \cup (IF SolverAvailable(ag)
                 THEN {"solver", "solver_slow", "solver_error"} ELSE {})

\* What the solving service does with a challenge in each outcome.
SolverReply(outcome) ==
    CASE outcome = "solver" ->
            [submitted |-> TRUE, ready_at |-> 1, error_at |-> 0]
      [] outcome = "solver_slow" ->
            [submitted |-> TRUE, ready_at |-> MaxPolls, error_at |-> 0]
      [] outcome = "solver_error" ->
            [submitted |-> TRUE, ready_at |-> 0, error_at |-> 2]
      [] outcome = "unsolved" ->
            [submitted |-> TRUE, ready_at |-> 0, error_at |-> 0]
      [] OTHER ->
            [submitted |-> FALSE, ready_at |-> 0, error_at |-> 0]

\* for _ in range(24): sleep(5), ask the res-endpoint; pass `i` of the loop.
RECURSIVE PollSolver(_, _)
PollSolver(i, reply) ==
    IF i > MaxPolls THEN [solved |-> FALSE, polls |-> MaxPolls]
    ELSE IF reply.ready_at = i THEN [solved |-> TRUE, polls |-> i]
    ELSE IF reply.error_at = i THEN [solved |-> FALSE, polls |-> i]
    ELSE PollSolver(i + 1, reply)

\* _solve_with_2captcha: nothing is sent without a sitekey or when the
\* in-endpoint refuses.
solve_with_2captcha(reply) ==
    IF reply.submitted THEN PollSolver(1, reply)
                       ELSE [solved |-> FALSE, polls |-> 0]

HandleCaptchaAgent(ag, outcome) ==
    IF outcome # "not_visible" /\ SolverAvailable(ag)
       THEN [ag EXCEPT
               !.captcha_solve_attempts = @ + 1,
               !.solver_submissions =
                   IF SolverReply(outcome).submitted THEN @ + 1 ELSE @,
               !.solver_polls = solve_with_2captcha(SolverReply(outcome)).polls]
       ELSE ag

CaptchaSolved(outcome) ==
    \/ solve_with_2captcha(SolverReply(outcome)).solved
    \/ outcome = "checkbox"

HandleCaptchaState(st, outcome) ==
    IF CaptchaSolved(outcome)
       THEN [st EXCEPT !.captcha_solved = TRUE]
       ELSE st

\* ----------------------------------------------------------- click executor
Words(action) == KeywordsIn(action.selector) \cup KeywordsIn(action.reasoning)

is_submit_keyword(action) == Words(action) \cap submit_keywords # {}

cta_score(action) ==
    2 * Cardinality(Words(action) \cap action_verbs)
      + Cardinality(Words(action) \cap urgency_words)

is_cta(action) == cta_score(action) >= 2

\* The classification without the filled-field test, for contrast.
is_submit_click(st, action) == is_submit_keyword(action) /\ ~is_cta(action)

is_real_submit(st, action) ==
    /\ is_submit_keyword(action)
    /\ st.fields_filled # {}
    /\ ~is_cta(action)

\* What the environment lets a click achieve.
\*   clicked          one of the click strategies clicks the element
\*   overlay_success  every strategy fails, the blocking overlay shows success
\*   overlay_retry    every strategy fails, the overlay is closed, the retry clicks
\*   failed           nothing clicks
ClickOutcomes(st) ==
    {"clicked", "failed"}
        \cup (IF st.form_submitted /\ st.submit_attempts > 0
                 THEN {"overlay_success", "overlay_retry"} ELSE {})

\* A click executor whose form_submitted follows the last click, for
\* contrast.
ExecuteClickUnlatched(st, action, outcome, url) ==
    LET counted == IF st.fields_filled # {}
                      THEN [st EXCEPT !.click_attempts_after_fill = @ + 1]
                      ELSE st
    IN  IF outcome = "clicked" /\ is_real_submit(st, action)
           THEN [counted EXCEPT !.submit_attempts = @ + 1,
                                !.form_submitted = TRUE,
                                !.url_before_submit = url]
           ELSE [counted EXCEPT !.form_submitted = FALSE]

\* AgentState after _execute_click.
ExecuteClick(st, action, outcome, url) ==
    LET counted == IF st.fields_filled # {}
                      THEN [st EXCEPT !.click_attempts_after_fill = @ + 1]
                      ELSE st
        captured == IF is_real_submit(st, action)
                       THEN [counted EXCEPT !.url_before_submit = url]
                       ELSE counted
    IN  IF outcome = "clicked" /\ is_real_submit(st, action)
           THEN [captured EXCEPT !.submit_attempts = @ + 1,
                                 !.form_submitted = TRUE]
           ELSE captured

\* ------------------------------------------------ execute_signup: actions
FatalErrors == {"quota_exceeded", "invalid_api_key", "api_access_denied"}
RateLimitExceeded == "Rate limit exceeded after retries"
TransientErrors == {RateLimitExceeded, "OpenAI request timed out"}

outerVars == <<idx, processed, consecutive_failures, stats, db, scraped, recorded,
               fixedVars, attempts_before, slept>>

\* execute_signup returns `res` to _process_url.
Return(res, st, ag) ==
    /\ result' = res
    /\ state' = st
    /\ agent' = ag
    /\ rpc' = "returned"

\* `break`: the loop is left and the final validation builds the result.
Break(st, ag) == Return(FinalResult(st), st, ag)

Succeeded(st) == [st EXCEPT !.complete = TRUE, !.success = TRUE]

GaveUp(st) == [st EXCEPT !.complete = TRUE, !.success = FALSE]

\* The snapshots a page can give.
FormSnapshots ==
    {BlankSnapshot,
     Snapshot(StrongText, FALSE, NoOverlay),
     Snapshot(WeakText, FALSE, NoOverlay),
     Snapshot(WeakText, TRUE, NoOverlay),
     Snapshot(NegativeText, FALSE, NoOverlay),
     Snapshot(NegativeText, TRUE, NoOverlay),
     Snapshot("", FALSE, CaptchaOverlay),
     Snapshot("", FALSE, SuccessOverlay)}

PageSnapshots ==
    IF PageKind(idx) = "form"
       THEN FormSnapshots
       ELSE {BlankSnapshot, Snapshot(StrongText, FALSE, NoOverlay)}

\* What the pages of the list can show.
UnwantedChoices ==
    IF PageKind(idx) \in {"busy", "login"} THEN BOOLEAN ELSE {FALSE}

\* page_analysis has credit-card fields only when the pre-analysis ran.
PaymentChoices ==
    IF PageKind(idx) = "busy" /\ ~batch_planning THEN BOOLEAN ELSE {FALSE}

\* Entry of execute_signup up to the loop (lines 463-504).
AgentStart ==
    /\ rpc = "agent_start"
    /\ Poll("agent_start")
    /\ \E unwanted \in UnwantedChoices, payment \in PaymentChoices :
          IF StopCheck
             THEN Return([InterruptedResult(state) EXCEPT !.fields_filled = {}],
                         state, agent)
          ELSE IF unwanted
             THEN Return(SkippedResult("unwanted_page", {}), state, agent)
          ELSE IF payment
             THEN Return(SkippedResult("payment_required", {}), state, agent)
          ELSE /\ rpc' = "agent_loop"
               /\ UNCHANGED <<state, agent, result>>
    /\ UNCHANGED <<outerVars, costVars, llm_called, llm_log, loop_iterations,
                   obs>>

\* while not self.state.complete and current_step <= max_steps
LoopCondition(st) == ~st.complete /\ st.current_step <= max_steps

\* The while condition, the stop check at the step boundary and the
\* unwanted-page check that open every iteration (lines 506-547).
AgentLoopHead ==
    /\ rpc = "agent_loop"
    /\ IF ~LoopCondition(state)
          THEN /\ Break(state, agent)
               /\ UNCHANGED <<stopVars, loop_iterations>>
          ELSE /\ Poll("step_boundary")
               /\ \E unwanted \in UnwantedChoices :
                     IF StopCheck
                        THEN /\ Return(InterruptedResult(state), state, agent)
                             /\ UNCHANGED loop_iterations
                     ELSE IF unwanted
                        THEN /\ Return(SkippedResult("unwanted_page",
                                                     state.fields_filled),
                                       state, agent)
                             /\ loop_iterations' = loop_iterations + 1
                     ELSE /\ rpc' = "agent_body"
                          /\ loop_iterations' = loop_iterations + 1
                          /\ UNCHANGED <<state, agent, result>>
    /\ obs' = NoObs
    /\ llm_log' = NoLlmLog
    /\ UNCHANGED <<outerVars, costVars, llm_called>>

\* The snapshot shows neither inputs nor navigation buttons after 15 steps
\* without a filled field (lines 553-564).
ObserveNoForm ==
    /\ rpc = "agent_body"
    /\ state.current_step >= NoFormStep
    /\ state.fields_filled = {}
    /\ Break(GaveUp(state), agent)
    /\ UNCHANGED <<outerVars, costVars, stopVars, llm_called, llm_log,
                   loop_iterations, obs>>

\* The blocking overlay found after a submission shows a success message or
\* a CAPTCHA (lines 566-601); any other overlay leaves the state alone.
OverlayCheck ==
    /\ rpc = "agent_body"
    /\ PageKind(idx) = "busy"
    /\ state.form_submitted /\ state.submit_attempts > 0
    /\ \E overlay \in {"is_success", "captcha"},
          outcome \in CaptchaOutcomes(agent) :
          IF overlay = "is_success" THEN Break(Succeeded(state), agent)
          ELSE IF ~state.captcha_attempted
             THEN LET st1 == HandleCaptchaState(
                                HandOffAttempted(state),
                                outcome)
                      ag1 == HandleCaptchaAgent(agent, outcome)
                  IN  IF CaptchaSolved(outcome)
                         THEN /\ state' = st1
                              /\ agent' = ag1
                              /\ rpc' = "agent_loop"
                              /\ UNCHANGED result
                         ELSE Return(SkippedResult("captcha",
                                                   st1.fields_filled),
                                     st1, ag1)
          ELSE Return(SkippedResult("captcha", state.fields_filled),
                      state, agent)
    /\ UNCHANGED <<outerVars, costVars, stopVars, llm_called, llm_log,
                   loop_iterations, obs>>

\* ----------------------------------------------- execute_signup: planning
\* getattr(self, 'last_llm_error', 'Unknown reason')
LastLlmError(ag) ==
    IF ag.last_llm_error = "" THEN "Unknown reason" ELSE ag.last_llm_error

\* What _reason_next_action can come back with when no stop was seen.
\*   page_loading  empty snapshot: a wait is answered without an LLM request
\*   error         the LLM request raises; the except clause keeps str(e)
\*   no_response   the LLM answers nothing usable
\*   action        the parsed answer
Planned(kind, action, error) ==
    [kind |-> kind, action |-> action, error |-> error]

PlannerActions(st) ==
    CASE PageKind(idx) \in {"idle", "late"} -> IdleActions \cup {CompleteAct}
      [] PageKind(idx) = "busy" ->
            IF st.current_step < QuickSteps
               THEN ActiveActions \cup {WaitSettle, CompleteAct}
               ELSE {CompleteAct}
      [] PageKind(idx) = "errors" ->
            IF st.current_step < QuickSteps
               THEN {WaitSettle, CompleteAct}
               ELSE {CompleteAct}
      [] PageKind(idx) = "form" ->
            IF st.current_step < FormSteps
               THEN {FillEmail, ClickSubscribe, ClickJoin, CompleteAct}
               ELSE {CompleteAct}
      [] PageKind(idx) = "phone" ->
            IF st.current_step < PhoneSteps
               THEN {FillEmail, FillPhone, FillCountryCode, ClickNoSelector,
                     CompleteAct}
               ELSE {CompleteAct}
      [] OTHER ->
            IF st.current_step < QuickSteps
               THEN {FillEmail, ClickSubscribe, CompleteAct}
               ELSE {CompleteAct}

\* At least three of the last six actions, four or more of them taken,
\* mention the phone: _reason_next_action answers with its own phone fill
\* and sends no LLM request.
PhoneLoop(st) ==
    /\ Len(st.recent_phone) >= PhoneLoopMin
    /\ Cardinality({i \in 1..Len(st.recent_phone) : st.recent_phone[i]})
          >= PhoneLoopCount

\* What the request ends with once the API stops answering 429.
LlmAnswers(st) ==
    {Planned("action", a, "") : a \in PlannerActions(st)}
        \cup (IF PageKind(idx) \in {"idle", "form", "phone", "late"} THEN {}
              ELSE {Planned("error", PageLoading, e) :
                        e \in FatalErrors \cup
                                  (TransientErrors \ {RateLimitExceeded})}
                   \cup {Planned("no_response", PageLoading, "")})

\* How many requests in a row the API answers with 429 rate_limit_exceeded:
\* runs of every length meet the first planner call of the errors page,
\* none or a lasting one the other calls.
RateLimitRuns(st) ==
    CASE PageKind(idx) = "errors" /\ st.current_step = 1 ->
            0..(max_retries + 2)
      [] PageKind(idx) \in {"idle", "form", "phone", "late"} -> {0}
      [] OTHER -> {0, max_retries + 1}

\* The retry loop without its bound, for contrast.
RECURSIVE call_until_answered(_, _, _)
call_until_answered(retry_count, limited, log) ==
    LET sent == [log EXCEPT !.requests = @ + 1]
    IN  IF limited = 0 THEN [sent EXCEPT !.outcome = "answered"]
        ELSE call_until_answered(
                retry_count + 1, limited - 1,
                [sent EXCEPT !.sleeps =
                    Append(@, BackoffSeconds * (retry_count + 1))])

\* while retry_count <= max_retries: the request is sent; a rate_limit
\* error counts a retry, raises after the last one and otherwise sleeps
\* 10 * retry_count seconds (the delay the API names, when it names one)
\* before the request is sent again.
RECURSIVE call_with_retries(_, _, _)
call_with_retries(retry_count, limited, log) ==
    LET sent == [log EXCEPT !.requests = @ + 1]
    IN  IF limited = 0 THEN [sent EXCEPT !.outcome = "answered"]
        ELSE IF retry_count + 1 > max_retries
           THEN [sent EXCEPT !.outcome = "rate_limited"]
        ELSE call_with_retries(
                retry_count + 1, limited - 1,
                [sent EXCEPT !.sleeps =
                    Append(@, BackoffSeconds * (retry_count + 1))])

\* _observe_page caught an exception and returned {}: the busy page does so
\* while it is settling, the plain page at any of its first LoadingSteps
\* steps.
EmptySnapshot(st) ==
    \/ PageKind(idx) = "busy" /\ st.current_step < QuickSteps
    \/ PageKind(idx) = "plain" /\ st.current_step <= LoadingSteps

PlannerAnswers(st) ==
    (IF PhoneLoop(st) THEN {Planned("phone_loop", AutoPhone, "")}
                      ELSE LlmAnswers(st))
        \cup (IF EmptySnapshot(st)
                 THEN {Planned("page_loading", PageLoading, "")} ELSE {})

\* A visible CAPTCHA in the snapshot is handled before planning while none
\* was solved and no hand-off was attempted (lines 610-628).
ProactiveChoices(st, ag) ==
    IF PageKind(idx) = "errors" /\ ~st.captcha_solved /\ ~st.captcha_attempted
       THEN {"none"} \cup (CaptchaOutcomes(ag) \ {"not_visible"})
       ELSE {"none"}

\* _execute_action: the state, the page URL and the verdict afterwards.
Executed(st, url, ok, overlay_success, raised) ==
    [st |-> st, url |-> url, ok |-> ok, overlay_success |-> overlay_success,
     raised |-> raised]

Executions(st, url, action) ==
    CASE action.action_type = "click" /\ action.selector = "" ->
            {Executed(st, url, FALSE, FALSE, FALSE)}
      [] action.action_type = "fill_field" ->
            {Executed(st, url, TRUE, FALSE, FALSE),
             Executed(st, url, FALSE, FALSE, FALSE)}
                \cup (IF PageKind(idx) = "busy"
                         THEN {Executed(st, url, FALSE, FALSE, TRUE)} ELSE {})
      [] action.action_type = "click" /\ action.selector # "" ->
            UNION {
                {Executed(ExecuteClick(st, action, outcome, url), landed,
                          outcome # "failed", outcome = "overlay_success",
                          FALSE) :
                    landed \in (IF outcome \in {"clicked", "overlay_retry"}
                                   THEN PageUrls ELSE {url})} :
                outcome \in ClickOutcomes(st)}
      [] OTHER -> {Executed(st, url, TRUE, FALSE, FALSE)}

\* The loop body after the action was executed (lines 651-815).  `rescue`
\* is the success text on the page when a stuck loop is found, `outcome`
\* what the CAPTCHA hand-off achieves, `has_success` the snapshot's
\* success indicator.
Tracked(st, action, ok, errs) ==
    [add_action(st, action, ok) EXCEPT
        !.error_messages_seen = SeeErrors(@, errs),
        !.recent_actions = RememberPattern(@, action)]

recent_failures(st) ==
    Cardinality({i \in 1..Len(st.last_success) : ~st.last_success[i]})

IsCaptchaStuck(stuck) == "captcha" \in KeywordsIn(stuck.text)

After(st, ag, exit) == [st |-> st, ag |-> ag, exit |-> exit]

AfterAction(st, ag, action, ok, rescue, outcome, has_success) ==
    LET stuck == StuckReason(st, ag.page_url)
    IN  IF stuck.kind # ""
           THEN IF rescue \/ is_success_url(ag.page_url)
                   THEN After(Succeeded(st), ag, "break")
                ELSE IF IsCaptchaStuck(stuck) /\ ~st.captcha_attempted
                   THEN LET st1 == HandleCaptchaState(
                                      HandOffAttempted(st),
                                      outcome)
                            ag1 == HandleCaptchaAgent(ag, outcome)
                        IN  IF CaptchaSolved(outcome)
                               THEN After(st1, ag1, "continue")
                               ELSE After([GaveUp(st1) EXCEPT
                                              !.stuck_loop_detected = TRUE],
                                          ag1, "break")
                ELSE After([GaveUp(st) EXCEPT !.stuck_loop_detected = TRUE],
                           ag, "break")
        ELSE IF action.action_type = "complete"
           THEN After(Succeeded(st), ag, "break")
        ELSE IF ~ok /\ recent_failures(st) >= FailureWindow
           THEN IF has_success /\ st.form_submitted /\ st.fields_filled # {}
                   THEN After(Succeeded(st), ag, "break")
                ELSE IF st.n_failed >= FailureLimit
                   THEN After(GaveUp(st), ag, "break")
                ELSE After(st, ag, "next")
        ELSE After(st, ag, "next")

\* The inputs AfterAction reads, each drawn only where the code reads it.
RescueChoices(st, ag) ==
    IF StuckReason(st, ag.page_url).kind # "" THEN BOOLEAN ELSE {FALSE}

HandOffChoices(st, ag) ==
    IF IsCaptchaStuck(StuckReason(st, ag.page_url)) /\ ~st.captcha_attempted
       THEN CaptchaOutcomes(ag) ELSE {"not_visible"}

\* The snapshot of the iteration, drawn where has_success_indicator
\* matters: the failure handling reads it, and a `complete` ends the URL
\* on that page.
SuccessIndicatorChoices(st, action, ok) ==
    IF \/ ~ok /\ recent_failures(st) >= FailureWindow
       \/ action.action_type = "complete"
       THEN PageSnapshots ELSE {BlankSnapshot}

\* What the iteration leaves in obs.
Observed(action, ok, guard, exit, snap, has_success) ==
    [action |-> action, ok |-> ok, guard |-> guard, exit |-> exit,
     snapshot |-> snap, has_success |-> has_success]

ErrorChoices(st) ==
    CASE PageKind(idx) = "errors" -> ErrorLists
      [] PageKind(idx) = "late" /\ st.current_step > max_steps - LateSteps ->
            {<<>>, <<ErrCaptcha>>}
      [] OTHER -> {<<>>}

\* How the iteration ends.
Finish(after) ==
    CASE after.exit = "break" -> Break(after.st, after.ag)
      [] after.exit = "continue" ->
            /\ state' = after.st
            /\ agent' = after.ag
            /\ rpc' = "agent_loop"
            /\ UNCHANGED result
      [] after.exit = "next" ->
            /\ state' = [after.st EXCEPT !.current_step = @ + 1]
            /\ agent' = after.ag
            /\ rpc' = "agent_loop"
            /\ UNCHANGED result

\* llm_config.get('model', 'gpt-4o'), and _track_cost of a request that was
\* answered with usage data.
LlmModel == "gpt-4o"
track_cost(costs, model) == costs \cup {model}

\* field_type of the LLM's answer, and _parse_llm_response: the answer
\* becomes an AgentAction, or None for a fill of the country code.
FieldType(action) ==
    CASE action.selector = "#countryCode" -> "country_code"
      [] action.selector = "#email" -> "email"
      [] action.selector = "#phone" -> "phone"
      [] OTHER -> ""

parse_llm_response(action) ==
    IF /\ action.action_type = "fill_field"
       /\ FieldType(action) \in {"country_code", "countrycode"}
       THEN <<>>
       ELSE <<action>>

\* The planner gave no action: the reason is kept and the loop is left.
PlannerFailed(st, ag) ==
    Break([st EXCEPT !.llm_failure_reason = LastLlmError(ag)], ag)

\* The action is executed and the rest of the iteration runs.  The
\* snapshot, and with it has_success_indicator, was taken before the action:
\* from `st` and the URL of `ag`.
ActOn(st, ag, action) ==
    \E ex \in Executions(st, ag.page_url, action), errs \in ErrorChoices(st) :
       LET ag1 == [ag EXCEPT !.page_url = ex.url]
           st1 == Tracked(ex.st, action, ex.ok, errs)
       IN  IF ex.raised
              THEN /\ Return(ExceptionResult, ex.st, ag1)
                   /\ obs' = Observed(action, FALSE, "skipped", "raised",
                                      BlankSnapshot, FALSE)
           ELSE IF ex.overlay_success
              THEN /\ Break(Succeeded(ex.st), ag1)
                   /\ obs' = Observed(action, TRUE, "skipped", "break",
                                      BlankSnapshot, FALSE)
           ELSE \E rescue \in RescueChoices(st1, ag1),
                   outcome \in HandOffChoices(st1, ag1),
                   snap \in SuccessIndicatorChoices(st1, action, ex.ok) :
                   LET has_success ==
                           detect_success_indicator(snap, st,
                                                    ag.page_url).is_success
                       after == AfterAction(st1, ag1, action, ex.ok, rescue,
                                            outcome, has_success)
                       guard == IF StuckReason(st1, ag1.page_url).kind # ""
                                   THEN "fired" ELSE "passed"
                   IN  /\ Finish(after)
                       /\ obs' = Observed(action, ex.ok, guard, after.exit,
                                          snap, has_success)

\* Proactive CAPTCHA handling, _reason_next_action, _execute_action and the
\* rest of the iteration (lines 610-815).
PlanAndAct ==
    /\ rpc = "agent_body"
    /\ Poll("before_llm")
    /\ \E captcha \in ProactiveChoices(state, agent) :
          LET st1 == IF captcha = "none" THEN state
                     ELSE HandleCaptchaState(state, captcha)
              ag1 == IF captcha = "none" THEN agent
                     ELSE HandleCaptchaAgent(agent, captcha)
          IN  IF StopCheck
                 THEN /\ PlannerFailed(st1, ag1)
                      /\ UNCHANGED <<llm_called, llm_log, obs, session_costs>>
                 ELSE \E plan \in PlannerAnswers(st1),
                         limited \in RateLimitRuns(st1) :
                         LET log == call_with_retries(0, limited, NoLlmLog)
                         IN  CASE plan.kind \in {"page_loading",
                                                 "phone_loop"} ->
                                     /\ ActOn(st1, ag1, plan.action)
                                     /\ UNCHANGED <<llm_called, llm_log,
                                                    session_costs>>
                               [] plan.kind \in {"action", "no_response",
                                                 "error"}
                                    /\ log.outcome = "rate_limited" ->
                                     /\ PlannerFailed(
                                           st1,
                                           [ag1 EXCEPT !.last_llm_error =
                                                          RateLimitExceeded])
                                     /\ llm_called' = TRUE
                                     /\ llm_log' = log
                                     /\ UNCHANGED <<obs, session_costs>>
                               [] plan.kind = "action"
                                    /\ log.outcome = "answered"
                                    /\ parse_llm_response(plan.action)
                                          = <<>> ->
                                     /\ PlannerFailed(st1, ag1)
                                     /\ llm_called' = TRUE
                                     /\ llm_log' =
                                           [log EXCEPT !.outcome = "discarded"]
                                     /\ session_costs' =
                                           track_cost(session_costs, LlmModel)
                                     /\ UNCHANGED obs
                               [] plan.kind = "action"
                                    /\ log.outcome = "answered"
                                    /\ parse_llm_response(plan.action)
                                          # <<>> ->
                                     /\ ActOn(st1, ag1, plan.action)
                                     /\ llm_called' = TRUE
                                     /\ llm_log' = log
                                     /\ session_costs' =
                                           track_cost(session_costs, LlmModel)
                               [] plan.kind = "no_response"
                                    /\ log.outcome = "answered" ->
                                     /\ PlannerFailed(st1, ag1)
                                     /\ llm_called' = TRUE
                                     /\ llm_log' = log
                                     /\ session_costs' =
                                           track_cost(session_costs, LlmModel)
                                     /\ UNCHANGED obs
                               [] plan.kind = "error"
                                    /\ log.outcome = "answered" ->
                                     /\ PlannerFailed(
                                           st1,
                                           [ag1 EXCEPT !.last_llm_error =
                                                          plan.error])
                                     /\ llm_called' = TRUE
                                     /\ llm_log' = log
                                     /\ UNCHANGED <<obs, session_costs>>
    /\ UNCHANGED <<outerVars, run_end, loop_iterations>>

\* --------------------------------------------- _process_url after the agent
\* A skip_category that files the agent's unwanted-page skip, which app-store
\* pages also raise, under the classifier's category, for contrast.
SkipCategoryOfClassifier(reason) ==
    CASE reason = "payment_required" -> "payment_required"
      [] reason = "unwanted_page" -> "app_store"
      [] OTHER -> "skipped"

\* skip_category of a result that carries a skipped_reason.
SkipCategory(reason) ==
    CASE reason = "payment_required" -> "payment_required"
      [] reason = "unwanted_page" -> "unwanted_page"
      [] OTHER -> "skipped"

\* Lines 1277-1363: the result of execute_signup is recorded and turned
\* into the value run() gets; the agent is dropped.
HandleResult ==
    /\ rpc = "returned"
    /\ IF result.interrupted_by_stop
          THEN /\ stats' = UncountAttempt(stats)
               /\ AfterProcessUrl("None")
               /\ UNCHANGED <<db, scraped, recorded>>
       ELSE IF result.success
          THEN /\ RecordResult(idx, "success", result.fields_filled, "")
               /\ AfterProcessUrl("True")
       ELSE IF result.skipped_reason # ""
          THEN /\ RecordResult(idx, "skipped", {},
                               SkipCategory(result.skipped_reason))
               /\ AfterProcessUrl(
                     IF SkipCategory(result.skipped_reason) = "no_form"
                        THEN "quick_skip" ELSE "False")
       ELSE /\ RecordResult(idx, "failed", result.fields_filled,
                            result.error_category)
            /\ AfterProcessUrl("False")
    /\ state' = InitState
    /\ agent' = InitAgent
    /\ result' = NoResult
    /\ llm_called' = FALSE
    /\ llm_log' = NoLlmLog
    /\ loop_iterations' = 0
    /\ obs' = NoObs
    /\ UNCHANGED <<fixedVars, costVars, stopVars, attempts_before, slept>>

\* DatabaseOperations.save_api_session_costs: one ApiSession row for every
\* model of by_model.
save_api_session_costs(rows, by_model) ==
    rows \cup {[model |-> m] : m \in by_model}

\* A summary that prints and leaves the costs where they are, for contrast.
print_summary_only(done, costs) == [done EXCEPT !.summary_printed = TRUE]

\* _print_summary: slog.summary(...), then the costs of the session are
\* saved when it made a call.
print_summary(done, costs) ==
    [done EXCEPT !.summary_printed = TRUE,
                 !.api_sessions = IF costs # {}
                                     THEN save_api_session_costs(@, costs)
                                     ELSE @]

\* finally: _print_summary() and _cleanup().
Summary ==
    /\ rpc = "summary"
    /\ rpc' = "done"
    /\ run_end' = print_summary(run_end, session_costs)
    /\ UNCHANGED <<runVars, stats, db, scraped, recorded, fixedVars,
                   session_costs, stopVars, agentVars, attempts_before,
                   slept>>

Next ==
    \/ RequestStop
    \/ StartupFailure
    \/ RunNextUrl
    \/ Cooldown
    \/ CheckDuplicate
    \/ Navigate
    \/ TryNavigate
    \/ AgentStart
    \/ AgentLoopHead
    \/ ObserveNoForm
    \/ OverlayCheck
    \/ PlanAndAct
    \/ HandleResult
    \/ Summary

Spec == Init /\ [][Next]_vars

\* The agent coroutine keeps running: every await of the loop returns or
\* raises within its timeout, so a step of execute_signup that can be taken
\* is eventually taken.
AgentStep ==
    \/ AgentStart
    \/ AgentLoopHead
    \/ ObserveNoForm
    \/ OverlayCheck
    \/ PlanAndAct


\* execute_signup on its own: _process_url has counted the attempt, analysed
\* one page and constructed the agent for it.  The page is one of the list
\* or one of the three pages studied apart.
StudyUrls == {1, 2, 3, KnownUrl, FormUrl, PhoneUrl, LateUrl}

AgentInit ==
    /\ rpc = "agent_start"
    /\ idx \in StudyUrls
    /\ processed = 0
    /\ consecutive_failures = 0
    /\ stats = CountAttempt(InitStats)
    /\ db = [u \in Urls |-> "none"]
    /\ scraped = [u \in Urls |-> 0]
    /\ data_source = "csv"
    /\ call = NoCall
    /\ recorded = NoRecord
    /\ batch_planning = FALSE
    /\ stop_requested = FALSE
    /\ ext_stop = FALSE
    /\ stop_file = FALSE
    /\ stop_seen = "none"
    /\ stop_idx = 0
    /\ state = InitState
    /\ agent = InitAgent
    /\ result = NoResult
    /\ llm_called = FALSE
    /\ llm_log = NoLlmLog
    /\ attempts_before = 0
    /\ slept = 0
    /\ loop_iterations = 0
    /\ obs = NoObs
    /\ session_costs = {}
    /\ run_end = NoRunEnd

\* No stop is asked for while the page is studied.
AgentNext ==
    \/ AgentStart
    \/ AgentLoopHead
    \/ ObserveNoForm
    \/ OverlayCheck
    \/ PlanAndAct

AgentSpec == AgentInit /\ [][AgentNext]_vars

\* Termination of execute_signup is studied on the page kinds of the list.
LiveUrls == {1, 2, 3, KnownUrl}

LiveInit == AgentInit /\ idx \in LiveUrls

LiveSpec == LiveInit /\ [][AgentNext]_vars /\ WF_vars(AgentStep)

\* ------------------------------------------- functions applied on their own
\* The run is parked while a function is applied to arguments of its own.
Parked ==
    /\ rpc = "done"
    /\ idx = 1
    /\ processed = 0
    /\ consecutive_failures = 0
    /\ stats = InitStats
    /\ db = [u \in Urls |-> "none"]
    /\ scraped = [u \in Urls |-> 0]
    /\ recorded = NoRecord
    /\ batch_planning = FALSE
    /\ data_source = "csv"
    /\ stop_requested = FALSE
    /\ ext_stop = FALSE
    /\ stop_file = FALSE
    /\ stop_seen = "none"
    /\ stop_idx = 0
    /\ state = InitState
    /\ agent = InitAgent
    /\ result = NoResult
    /\ llm_called = FALSE
    /\ llm_log = NoLlmLog
    /\ attempts_before = 0
    /\ slept = 0
    /\ loop_iterations = 0
    /\ obs = NoObs
    /\ session_costs = {}
    /\ run_end = NoRunEnd

parkedVars == <<rpc, idx, processed, consecutive_failures, stats, db, scraped,
                recorded, batch_planning, data_source, stop_requested,
                ext_stop, stop_file, stop_seen, stop_idx, state, agent,
                result, llm_called, llm_log, attempts_before, slept,
                loop_iterations, obs, session_costs, run_end>>

\* form_logic.is_radio_or_checkbox_selector
is_radio_or_checkbox_selector(selector) ==
    LET type_patterns ==
            {"type='radio'", "type=\"radio\"", "type='checkbox'",
             "type=\"checkbox\"", "[type=radio]", "[type=checkbox]",
             "input[type='radio']", "input[type=\"radio\"]",
             "input[type='checkbox']", "input[type=\"checkbox\"]"}
    IN  /\ selector # ""
        /\ KeywordsIn(selector) \cap type_patterns # {}

\* form_logic.is_submit_action
is_submit_action(selector, reasoning, fields_filled, is_cta_button) ==
    LET SUBMIT_KEYWORDS ==
            {"submit", "sign up", "signup", "register", "subscribe", "join",
             "send", "continue", "next", "create", "get started"}
    IN  /\ selector # ""
        /\ fields_filled # {}
        /\ \/ (KeywordsIn(selector) \cup KeywordsIn(reasoning))
                  \cap SUBMIT_KEYWORDS # {}
           \/ ~is_cta_button
        /\ ~is_radio_or_checkbox_selector(selector)

\* The clicks the two classifications are applied to.
ClassifyInit ==
    /\ Parked
    /\ \E s \in {"", "button:has-text('Subscribe')",
                  "a:has-text('Get Started')", "button:has-text('Join')",
                  "input[type='checkbox'][name='subscribe']",
                  "input[type='radio'][value='Yes']"},
          r \in {"submit the form", "open the signup form",
                  "click the button", "select the option and continue"},
          f \in {{}, {"email"}, {"email", "phone"}}, c \in BOOLEAN :
          call = [fn |-> "classify", selector |-> s, reasoning |-> r,
                  fields_filled |-> f, is_cta_button |-> c, done |-> FALSE,
                  pure |-> FALSE, executor |-> FALSE]

\* is_submit_action on the arguments, and is_real_submit as _execute_click
\* computes it for the same click with the same fields filled (a click
\* without a selector returns before it is classified).
Classify ==
    /\ call.fn = "classify"
    /\ ~call.done
    /\ call' = [call EXCEPT
                  !.done = TRUE,
                  !.pure = is_submit_action(call.selector, call.reasoning,
                                            call.fields_filled,
                                            call.is_cta_button),
                  !.executor =
                      /\ call.selector # ""
                      /\ is_real_submit(
                            [InitState EXCEPT
                               !.fields_filled = call.fields_filled],
                            Act("click", call.selector, call.reasoning))]
    /\ UNCHANGED parkedVars

ClassifySpec == ClassifyInit /\ [][Classify]_vars

\* --- batch planning
\* The simplified HTML of a page is kept as what the code looks for in it:
\* the attribute="value" pairs and the texts it contains, and its length.
Html(contains, length) == [contains |-> contains, length |-> length]

\* What the patterns of validate_selector_exists_in_html find in a selector,
\* in the order they are tried: "#id", [name=...], input[type=...],
\* :has-text(...); anything else cannot be parsed.
SelectorRef(selector) ==
    CASE selector = "#email" -> <<"id", "email">>
      [] selector = "#phone" -> <<"id", "phone">>
      [] selector = "[name='email']" -> <<"name", "email">>
      [] selector = "input[type='checkbox'][name='subscribe']" ->
            <<"name", "subscribe">>
      [] selector = "input[type='email']" -> <<"type", "email">>
      [] selector = "button:has-text('Subscribe')" -> <<"text", "subscribe">>
      [] selector = "button:has-text('Join')" -> <<"text", "join">>
      [] OTHER -> <<"unparsed", selector>>

\* form_logic.validate_selector_exists_in_html
validate_selector_exists_in_html(selector, html) ==
    IF selector = "" \/ html.length = 0 THEN FALSE
    ELSE IF SelectorRef(selector)[1] = "unparsed" THEN TRUE
    ELSE SelectorRef(selector) \in html.contains

\* form_logic.validate_llm_actions
validate_llm_actions(actions, html) ==
    LET Valid(a) ==
           \/ a.action_type = "complete"
           \/ /\ a.action_type \in {"fill_field", "click"}
              /\ a.selector # ""
              /\ validate_selector_exists_in_html(a.selector, html)
    IN  SelectSeq(actions, Valid)

\* LLMPageAnalyzer.get_batch_plan: the fast-fail answers given without a
\* request, then the answer of the LLM with the actions of a known type.
get_batch_plan(html, answer) ==
    LET has_input == <<"tag", "input">> \in html.contains
        has_fillable_input ==
            \/ <<"type", "email">> \in html.contains
            \/ has_input /\ <<"name", "email">> \in html.contains
        Known(a) == a.action_type \in {"fill_field", "click", "complete"}
    IN  IF ~has_fillable_input \/ html.length < 50
           THEN [actions |-> <<Act("complete", "", "No signup form")>>,
                 no_form |-> TRUE, error |-> "", requested |-> FALSE]
        ELSE IF answer.kind = "raises"
           THEN [actions |-> <<>>, no_form |-> FALSE,
                 error |-> answer.error, requested |-> TRUE]
        ELSE IF answer.kind = "no_actions"
           THEN [actions |-> <<>>, no_form |-> FALSE,
                 error |-> "Missing actions", requested |-> TRUE]
        ELSE [actions |-> SelectSeq(answer.actions, Known),
              no_form |-> FALSE, error |-> "", requested |-> TRUE]

\* The pages and the answers get_batch_plan is applied to.
BatchHtmls ==
    {Html({}, 0),
     Html({<<"tag", "input">>, <<"type", "email">>}, 30),
     Html({<<"tag", "input">>, <<"type", "email">>, <<"id", "email">>,
           <<"text", "subscribe">>}, 400),
     Html({<<"tag", "input">>, <<"name", "email">>, <<"text", "join">>}, 400),
     Html({<<"tag", "input">>, <<"type", "checkbox">>,
           <<"name", "subscribe">>}, 400)}

BatchActions ==
    {FillEmail, FillPhone, ClickSubscribe, ClickJoin, ClickNoSelector,
     CompleteAct, WaitSettle,
     Act("fill_field", "[name='email']", "fill the email field"),
     Act("click", "form > button", "submit the form")}

BatchAnswers ==
    {[kind |-> "raises", error |-> "OpenAI request timed out",
      actions |-> <<>>],
     [kind |-> "no_actions", error |-> "", actions |-> <<>>]}
      \cup {[kind |-> "plan", error |-> "", actions |-> <<a>>] :
               a \in BatchActions}
      \cup {[kind |-> "plan", error |-> "", actions |-> <<a, b>>] :
               a \in BatchActions, b \in {ClickSubscribe, CompleteAct}}

BatchInit ==
    /\ Parked
    /\ \E h \in BatchHtmls, a \in BatchAnswers :
          call = [fn |-> "get_batch_plan", html |-> h, answer |-> a,
                  done |-> FALSE,
                  plan |-> [actions |-> <<>>, no_form |-> FALSE,
                            error |-> "", requested |-> FALSE]]

BatchPlan ==
    /\ call.fn = "get_batch_plan"
    /\ ~call.done
    /\ call' = [call EXCEPT !.done = TRUE,
                            !.plan = get_batch_plan(call.html, call.answer)]
    /\ UNCHANGED parkedVars

BatchSpec == BatchInit /\ [][BatchPlan]_vars

\* --- verification
Verdict(status, confidence, requested) ==
    [status |-> status, confidence |-> confidence, requested |-> requested]

\* LLMPageAnalyzer.verify_submission.  `context` carries the filled fields,
\* the real submits among the actions taken and the length of the
\* simplified HTML; `answer` is what the LLM request comes back with.
\* Confidence is kept in hundredths.
verify_submission(context, answer) ==
    IF context.html_length < 50 THEN Verdict("success", 50, FALSE)
    ELSE IF answer.kind \in {"raises", "not_a_dict"}
       THEN Verdict("failed", 0, TRUE)
    ELSE Verdict(answer.status, answer.confidence, TRUE)

\* The pages the verifier is asked about and what the LLM may say of them;
\* the prompt tells it to call a sales or upsell page a success.
VerifyContexts ==
    [fields_filled : {{}, {"#email"}}, real_submits : {0, 1},
     html_length : {0, 30, 400}, page : {"form", "sales", "thank_you"}]

VerifyAnswers ==
    {[kind |-> "raises", status |-> "", confidence |-> 0],
     [kind |-> "not_a_dict", status |-> "", confidence |-> 0],
     [kind |-> "dict", status |-> "success", confidence |-> 85],
     [kind |-> "dict", status |-> "needs_more_actions", confidence |-> 70],
     [kind |-> "dict", status |-> "validation_error", confidence |-> 90],
     [kind |-> "dict", status |-> "failed", confidence |-> 60]}

VerifyInit ==
    /\ Parked
    /\ \E c \in VerifyContexts, a \in VerifyAnswers :
          /\ a.status = "validation_error" => c.page = "form"
          /\ call = [fn |-> "verify_submission", context |-> c,
                     answer |-> a, done |-> FALSE,
                     verdict |-> Verdict("", 0, FALSE)]

Verify ==
    /\ call.fn = "verify_submission"
    /\ ~call.done
    /\ call' = [call EXCEPT
                  !.done = TRUE,
                  !.verdict = verify_submission(call.context, call.answer)]
    /\ UNCHANGED parkedVars

VerifySpec == VerifyInit /\ [][Verify]_vars

\* --- runs over the queue
\* The for loop of run() over the list _get_urls returned, on the two
\* tables: a URL with a row is passed over (duplicates_skipped += 1,
\* continue), any other is processed and _record_result writes its row and
\* marks its scraped row.  `outcomes` are the statuses the URLs end with.
RECURSIVE RunOverQueue(_, _, _)
RunOverQueue(list, outcomes, t) ==
    IF list = <<>> THEN t
    ELSE LET url == Head(list)
         IN  IF t.db[url] # "none"
                THEN RunOverQueue(Tail(list), Tail(outcomes),
                                  [t EXCEPT !.duplicates = @ \cup {url}])
                ELSE RunOverQueue(
                        Tail(list), Tail(outcomes),
                        [t EXCEPT
                           !.db = add_processed_url(@, url, Head(outcomes)),
                           !.scraped = mark_url_processed(@, url),
                           !.attempted = @ \cup {url}])

\* The queue holds every URL unprocessed; some of them already have a row,
\* written when they came from another source.
QueueInit ==
    /\ Parked
    /\ \E known \in SUBSET Urls :
          call = [fn |-> "run", runs |-> 0,
                  db |-> [u \in Urls |-> IF u \in known THEN "success"
                                                         ELSE "none"],
                  scraped |-> [u \in Urls |-> 0],
                  list |-> <<>>, duplicates |-> {}, attempted |-> {}]

\* One run of the bot with data_source = "database", no stop asked for.
QueueRun ==
    /\ call.fn = "run"
    /\ call.runs < MaxRuns
    /\ LET urls == get_unprocessed_urls(call.scraped, MaxSignups)
       IN  \E outcomes \in [1..Len(urls) -> ProcessedStatuses] :
              call' = RunOverQueue(
                         urls, outcomes,
                         [call EXCEPT !.runs = @ + 1, !.list = urls,
                                      !.duplicates = {}])
    /\ UNCHANGED parkedVars

QueueSpec == QueueInit /\ [][QueueRun]_vars /\ WF_vars(QueueRun)

\* A missing fields_filled argument, kept apart from every list of fields.
NoFieldsGiven == <<"None">>

\* json.dumps(fields_filled or []): None is written as the empty list.
json_dumps(fields) ==
    CASE fields = NoFieldsGiven -> "[]"
      [] fields = <<>> -> "[]"
      [] fields = <<"email">> -> "[\"email\"]"

\* The ProcessedURL built from the arguments of add_processed_url.
ProcessedURL(a) ==
    [url |-> a.url, source |-> a.source, status |-> a.status,
     fields_filled |-> json_dumps(a.fields_filled),
     error_message |-> a.error_message, error_category |-> a.error_category,
     details |-> a.details]

\* add_processed_url without the lookup of an existing row, for contrast.
insert_processed_url_row(rows, a) == Append(rows, ProcessedURL(a))

\* DatabaseOperations.add_processed_url on the rows of processed_urls: the
\* first row of the URL is updated in every column but url and source,
\* or a row is added.
add_processed_url_row(rows, a) ==
    IF \E i \in 1..Len(rows) : rows[i].url = a.url
       THEN LET first == CHOOSE i \in 1..Len(rows) :
                            /\ rows[i].url = a.url
                            /\ \A j \in 1..(i - 1) : rows[j].url # a.url
            IN  [rows EXCEPT ![first] =
                    [ProcessedURL(a) EXCEPT !.source = rows[first].source]]
       ELSE Append(rows, ProcessedURL(a))

\* The arguments _record_result may pass.
AddProcessedUrlArgs ==
    LET errors == {<<"None", "None", "None">>,
                   <<"Timed out", "timeout", "None">>,
                   <<"Exception: boom", "exception",
                     "Exception type: KeyError">>}
    IN  {[url |-> u, source |-> src, status |-> s, fields_filled |-> f,
          error_message |-> e[1], error_category |-> e[2], details |-> e[3]] :
            u \in {1, KnownUrl}, src \in {"csv", "database"},
            s \in {"success", "failed"},
            f \in {NoFieldsGiven, <<>>, <<"email">>}, e \in errors}

\* An empty table; `last` keeps the arguments of the latest call for each
\* URL (none before the first) and `view` the url -> status table the run works with.
DbInit ==
    /\ Parked
    /\ call = [fn |-> "add_processed_url", rows |-> <<>>,
               last |-> [u \in Urls |-> <<>>],
               view |-> [u \in Urls |-> "none"]]

AddProcessedUrl ==
    /\ call.fn = "add_processed_url"
    /\ Len(call.rows) < MaxRows
    /\ \E a \in AddProcessedUrlArgs :
          call' = [call EXCEPT
                     !.rows = add_processed_url_row(@, a),
                     !.last = [@ EXCEPT ![a.url] = <<a>>],
                     !.view = add_processed_url(@, a.url, a.status)]
    /\ UNCHANGED parkedVars

DbSpec == DbInit /\ [][AddProcessedUrl]_vars

\* ------------------------------------------------------------- properties
InAgent == rpc \in {"agent_start", "agent_loop", "agent_body"}

InProcessUrl == rpc \in {"navigate", "try_navigate", "returned"} \/ InAgent

RunOver == rpc \in {"summary", "done"}

\* C1: a result reported as success, whichever path set state.success,
\* comes from a state with form_submitted, a submit attempt or a click after
\* a fill, and with a filled field; a row recorded as success carries at
\* least one filled field.
C1_SuccessHasSubmitEvidence ==
    /\ (rpc = "returned" /\ result.success) =>
          /\ \/ state.form_submitted
             \/ state.submit_attempts >= 1
             \/ state.click_attempts_after_fill >= 1
          /\ Cardinality(state.fields_filled) >= 1
          /\ result.fields_filled = state.fields_filled
    /\ recorded.status = "success" => Cardinality(recorded.fields_filled) >= 1

\* A success whose only evidence is a click after a fill.
C1_Witness ==
    /\ rpc = "returned"
    /\ result.success
    /\ ~state.form_submitted
    /\ state.submit_attempts = 0
    /\ state.click_attempts_after_fill >= 1

\* C2: a stop first seen on entry to execute_signup or at a step boundary
\* of the loop leaves the URL without a row, and once the run is over
\* total_attempts is what it was before the URL was started.
C2_StopAtStepBoundaryLeavesPending ==
    stop_seen \in {"agent_start", "step_boundary"} =>
        /\ db[stop_idx] = "none"
        /\ recorded.url # stop_idx
        /\ RunOver => stats.total_attempts = attempts_before

C2_Witness ==
    /\ stop_seen = "step_boundary"
    /\ rpc = "done"
    /\ attempts_before >= 1
    /\ stats.total_attempts = attempts_before

\* C3: a stop first seen at any polling point inside the processing of a
\* URL (before navigating, before a navigation-button click, at a step
\* boundary, before an LLM call) leaves the URL without a row and not
\* counted in total_attempts.
C3_StopAtAnyPollLeavesPending ==
    stop_seen \in {"before_url", "navigation", "navigation_button",
                   "step_boundary", "before_llm"} =>
        /\ db[stop_idx] = "none"
        /\ RunOver => stats.total_attempts = attempts_before

\* C4: once a stop was observed no further URL is started: the loop head
\* goes to the summary only, _process_url is not entered again, and the URL
\* in progress at the observation is the last one touched.
C4_NoUrlAfterStop ==
    /\ [][stop_seen # "none" =>
            /\ rpc = "loop_top" /\ rpc' # "loop_top" => rpc' = "summary"
            /\ rpc = "dedupe" => rpc' \in {"summary", "loop_top"}
            /\ stats'.total_attempts <= stats.total_attempts]_vars
    /\ [](stop_seen # "none" /\ RunOver =>
            \A u \in Urls : u > stop_idx => db[u] = "none" \/ u = KnownUrl)

C4_Witness ==
    /\ stop_seen # "none"
    /\ rpc = "done"
    /\ stop_idx >= 2
    /\ stop_idx < NumUrls
    /\ db[NumUrls] = "none"

\* C5: a fatal LLM error met by a planner call ends the run with no later
\* URL processed; a transient one marks the URL failed with llm_error and
\* the run goes on.
C5_FatalLlmErrorEndsRun ==
    [][(rpc = "returned" /\ rpc' # "returned") =>
          /\ state.llm_failure_reason \in FatalErrors => rpc' = "summary"
          /\ state.llm_failure_reason \in TransientErrors =>
                /\ db'[idx] = "failed"
                /\ recorded'.error_category = "llm_error"
                /\ rpc' = "loop_top"]_vars

\* C6: the agent loop ends: no iteration begins with current_step above
\* max_steps, current_step never decreases while the agent runs, an
\* iteration that re-enters the loop without incrementing it spends the one
\* CAPTCHA hand-off of the URL, and execute_signup returns.
C6_AgentLoopTerminates ==
    /\ [](rpc = "agent_body" => state.current_step <= max_steps)
    /\ [](loop_iterations <= max_steps + 1)
    /\ [][InAgent /\ rpc' # "returned" =>
            /\ state'.current_step >= state.current_step
            /\ (rpc = "agent_body" /\ rpc' = "agent_loop"
                  /\ state'.current_step = state.current_step) =>
                  ~state.captcha_attempted /\ state'.captcha_attempted]_vars
    /\ (InAgent ~> rpc = "returned")

C6_Witness ==
    /\ rpc = "agent_body"
    /\ state.current_step = max_steps
    /\ loop_iterations = max_steps

\* C7 as stated: when consecutive_failures is 5 or more, the next thing
\* the run does is the sleep.
C7_SleepIsNextOperation ==
    [][(consecutive_failures >= max_failures /\ rpc = "loop_top"
           /\ rpc' # "loop_top") => rpc' = "cooldown"]_vars

\* C7: when consecutive_failures is 5 or more the loop head either ends
\* the run (list exhausted, stop seen) or sleeps; the sleep lasts 60
\* seconds and resets the counter, and no URL is processed with the counter
\* at 5 or more.
C7_SleepBeforeNextUrl ==
    /\ [][(consecutive_failures >= max_failures /\ rpc = "loop_top"
              /\ rpc' # "loop_top") =>
             \/ rpc' = "cooldown"
             \/ rpc' = "summary" /\ (idx > NumUrls \/ StopCheck)]_vars
    /\ [][(rpc = "cooldown" /\ rpc' # "cooldown") =>
             /\ slept' >= slept + 60
             /\ consecutive_failures' = 0
             /\ rpc' = "dedupe"]_vars
    /\ [](rpc = "dedupe" \/ InProcessUrl =>
             consecutive_failures < max_failures)

C7_Witness ==
    /\ slept >= 60
    /\ consecutive_failures = 0
    /\ rpc = "navigate"

\* C8: a URL recorded as success adds one to processed and resets
\* consecutive_failures; a URL recorded as failed adds one to
\* consecutive_failures and leaves processed alone.
C8_CountersFollowOutcome ==
    [][(idx \in Urls /\ db'[idx] # db[idx]) =>
          /\ db'[idx] = "success" =>
                processed' = processed + 1 /\ consecutive_failures' = 0
          /\ db'[idx] = "failed" =>
                /\ consecutive_failures' = consecutive_failures + 1
                /\ processed' = processed]_vars

C8_Witness ==
    /\ processed = 1
    /\ consecutive_failures = 1
    /\ stats.failed_attempts >= 2
    /\ recorded.status = "failed"

\* C9: processed never exceeds max_signups, no URL is being processed once
\* it is reached, and at most max_signups URLs are recorded as success.
C9_MaxSignupsRespected ==
    /\ processed <= MaxSignups
    /\ stats.successful_signups <= MaxSignups
    /\ processed >= MaxSignups => rpc \in {"loop_top", "summary", "done"}

C9_Witness ==
    /\ processed = MaxSignups
    /\ rpc = "done"
    /\ idx <= NumUrls
    /\ stop_seen = "none"

\* C10: a URL that has a row, of any status, is skipped: nothing is
\* written, processed and consecutive_failures stay, no LLM request is
\* sent, and neither navigation nor the agent loop ever runs for it.
C10_DuplicateIsSkipped ==
    /\ [][(rpc = "dedupe" /\ rpc' # "dedupe" /\ db[idx] # "none") =>
             /\ db' = db
             /\ recorded' = recorded
             /\ processed' = processed
             /\ consecutive_failures' = consecutive_failures
             /\ llm_called' = llm_called
             /\ loop_iterations' = loop_iterations
             /\ rpc' = "loop_top"
             /\ idx' = idx + 1]_vars
    /\ [](InProcessUrl => db[idx] = "none")
    /\ [](llm_called => InProcessUrl)

C10_Witness ==
    /\ stats.duplicates_skipped = 1
    /\ idx > KnownUrl
    /\ db[KnownUrl] = "failed"
    /\ processed = 0
    /\ consecutive_failures = 3

\* C11: a `complete` answered by the planner ends the URL as a success only
\* when the snapshot of that iteration carries a success indicator.
C11_CompleteNeedsOracle ==
    (/\ rpc = "returned"
     /\ obs.action = CompleteAct
     /\ obs.guard = "passed"
     /\ result.success) => obs.has_success

\* C12: when the visible text holds a negative phrase, and neither a strong
\* phrase nor a success overlay is there, has_success_indicator is false:
\* no URL change, vanished form or keyword after a submit makes it true.
C12_NegativeVetoesWeakSuccess ==
    LET kws == KeywordsIn(obs.snapshot.visible_text)
    IN  (/\ obs.guard \in {"fired", "passed"}
         /\ kws \cap negative_patterns # {}
         /\ kws \cap strong_success_patterns = {}
         /\ ~obs.snapshot.overlay.found) => ~obs.has_success

C14_StuckAbortCategory ==
    (rpc = "returned" /\ state.stuck_loop_detected) =>
        /\ ~result.success
        /\ result.error_category = "stuck_loop"

\* C15: the loop never asks for another action once 5 actions of the URL
\* have failed.
C15_FailuresAbortAtLimit ==
    rpc = "agent_body" => state.n_failed < 5

\* C16: once the CAPTCHA handler went to work on a URL captcha_attempted is
\* true, it does not go to work a second time, and captcha_solved is true
\* only after it solved one.
C16_CaptchaAttemptedOnce ==
    /\ agent.captcha_solve_attempts >= 1 => state.captcha_attempted
    /\ agent.captcha_solve_attempts <= 1
    /\ state.captcha_solved => agent.captcha_solve_attempts >= 1
                                  \/ state.captcha_attempted

\* C17: for one URL at most 2 challenges go to the solving service, and
\* each is asked about at most 24 times, 5 seconds apart: 120 seconds.
C17_SolverBounded ==
    /\ agent.captcha_solve_attempts <= 2
    /\ agent.solver_submissions <= 2
    /\ agent.solver_polls <= 24
    /\ agent.solver_polls * PollSeconds <= 120

\* Two challenges were sent and the second one timed out after 24 polls.
C17_Witness ==
    /\ agent.solver_submissions = 2
    /\ agent.solver_polls = 24
    /\ ~state.captcha_solved

\* C18: within one URL submit_attempts never decreases and form_submitted,
\* once true, stays true.
C18_SubmitStateMonotonic ==
    [][InAgent =>
          /\ state'.submit_attempts >= state.submit_attempts
          /\ state.form_submitted => state'.form_submitted]_vars

\* After three submits a further click failed.
C18_Witness ==
    /\ state.form_submitted
    /\ state.submit_attempts = 3
    /\ obs.action.action_type = "click"
    /\ ~obs.ok

\* C19: every successful fill_field record has its selector in
\* fields_filled with the value that record filled.
C19_FilledValuesMatchRecords ==
    state.fills_recorded \subseteq state.fill_values

\* C20: an executed action changes submit_attempts or form_submitted only
\* when it is a click classified as a real submit; a click on a selector
\* with a field filled adds exactly one to click_attempts_after_fill; a
\* click with no field filled changes none of the three.  (An action with
\* no selector is turned down before any click is tried.)
C20_ClickCounters ==
    [][LET a == obs'.action
           clicks == a.action_type = "click" /\ a.selector # ""
           filled == state.fields_filled # {}
       IN  InAgent =>
              /\ (\/ state'.submit_attempts # state.submit_attempts
                  \/ state'.form_submitted # state.form_submitted) =>
                    /\ obs' # NoObs
                    /\ clicks
                    /\ is_submit_keyword(a) /\ filled /\ ~is_cta(a)
                    /\ state'.submit_attempts = state.submit_attempts + 1
                    /\ state'.form_submitted
              /\ (obs' # NoObs /\ obs'.exit # "raised" /\ clicks /\ filled) =>
                    state'.click_attempts_after_fill
                        = state.click_attempts_after_fill + 1
              /\ (obs' # NoObs /\ clicks /\ ~filled) =>
                    /\ state'.click_attempts_after_fill
                          = state.click_attempts_after_fill
                    /\ state'.submit_attempts = state.submit_attempts
                    /\ state'.form_submitted = state.form_submitted
              /\ (obs' = NoObs \/ ~clicks) =>
                    state'.click_attempts_after_fill
                        = state.click_attempts_after_fill]_vars

\* A call-to-action click after a fill counted as a click after fill and
\* not as a submit.
C20_Witness ==
    /\ obs.action = ClickGetStarted
    /\ obs.ok
    /\ state.click_attempts_after_fill = 1
    /\ state.submit_attempts = 0
    /\ ~state.form_submitted

\* C21: a click is not classified as a real submit when no field has been
\* filled, nor when its selector is that of a radio button or checkbox,
\* whatever the reasoning says; this is so of is_submit_action and of the
\* classification _execute_click applies.
C21_NoSubmitWithoutFieldsOrOnToggle ==
    (call.fn = "classify" /\ call.done
        /\ (call.fields_filled = {}
              \/ is_radio_or_checkbox_selector(call.selector)))
      => ~call.pure /\ ~call.executor

\* C22: a selector that a click found missing from the page at an earlier
\* step of the URL is not the selector of an action executed at a later
\* step.  The last entries of recent_actions and last_success describe the
\* same executed actions, newest last.
C22_MissingSelectorNotReused ==
    LET n == Len(state.recent_actions)
        m == Len(state.last_success)
        k == IF n < m THEN n ELSE m
    IN  \A older, newer \in 0..(k - 1) :
           (/\ older > newer
            /\ state.recent_actions[n - older][1] = "click"
            /\ state.recent_actions[n - older][2] # ""
            /\ ~state.last_success[m - older])
             => state.recent_actions[n - newer][2]
                   # state.recent_actions[n - older][2]

\* C23: when a row is written with category app_store, load_error or
\* blog_article, no LLM request has been sent for that URL.
C23_ClassifierSkipsWithoutLlm ==
    [][(db' # db
          /\ recorded'.error_category
                \in {"app_store", "load_error", "blog_article"})
         => ~llm_called /\ ~llm_called']_vars

C23_Witness ==
    /\ recorded.status = "skipped"
    /\ recorded.error_category = "blog_article"
    /\ db[recorded.url] = "skipped"
    /\ stats.total_attempts = 1

\* C24 as stated: whatever batch_planning is, the row written for a
\* login-only page is skipped / login_page and no LLM request was sent for
\* the page.
C24_LoginOnlySkippedInEveryMode ==
    [][(PageKind(idx) = "login" /\ db'[idx] # db[idx])
         => /\ recorded'.status = "skipped"
            /\ recorded'.error_category = "login_page"
            /\ ~llm_called]_vars

\* C24: with batch_planning off, the row written for a page the
\* pre-analysis finds login-only is skipped / login_page and no LLM request
\* was sent for the page.
C24_LoginOnlySkippedByPreAnalysis ==
    [][(~batch_planning /\ PageKind(idx) = "login" /\ db'[idx] # db[idx])
         => /\ recorded'.status = "skipped"
            /\ recorded'.error_category = "login_page"
            /\ recorded'.url = idx
            /\ ~llm_called]_vars

C24_Witness ==
    /\ ~batch_planning
    /\ recorded.url = LoginUrl
    /\ recorded.error_category = "login_page"
    /\ db[LoginUrl] = "skipped"
    /\ stats.successful_signups >= 1

\* C25: one planner call sends at most 1 + 3 requests and sleeps once
\* before each request after the first; a call whose fourth request is
\* still rate-limited fails with the rate-limit reason, and the URL is
\* then recorded failed with category llm_error.
C25_RateLimitRetriesBounded ==
    /\ [](/\ llm_log.requests <= max_retries + 1
          /\ llm_log.requests >= 1 =>
                Len(llm_log.sleeps) = llm_log.requests - 1
          /\ \A i \in 1..Len(llm_log.sleeps) : llm_log.sleeps[i] > 0
          /\ llm_log.outcome = "rate_limited" =>
                /\ llm_log.requests = max_retries + 1
                /\ rpc = "returned"
                /\ state.llm_failure_reason = RateLimitExceeded)
    /\ [][(rpc = "returned" /\ llm_log.outcome = "rate_limited"
             /\ rpc' # "returned")
            => /\ db'[idx] = "failed"
               /\ recorded'.url = idx
               /\ recorded'.error_category = "llm_error"
               /\ rpc' = "loop_top"]_vars

C25_Witness ==
    /\ llm_log.outcome = "rate_limited"
    /\ llm_log.requests = 4
    /\ llm_log.sleeps = <<10, 20, 30>>
    /\ rpc = "returned"
    /\ PageKind(idx) = "errors"

\* C26: an executed fill_field comes back with a result, success or failure:
\* the iteration records the action and goes on through the loop body; it
\* does not leave execute_signup through the except clause.
C26_FillReturnsResult ==
    obs.action.action_type = "fill_field"
      => /\ obs.exit \in {"next", "continue", "break"}
         /\ obs.guard # "skipped"
         /\ Len(state.last_success) >= 1
         /\ state.last_success[Len(state.last_success)] = obs.ok

\* C27 as stated: whenever an exception escapes the agent loop (obs.exit
\* is "raised" when execute_signup returns) or is handled by the except
\* clause of _process_url, the URL gets its one row, failed / exception,
\* and the run goes on to the next URL.
C27_ExceptionAlwaysRecorded ==
    [][(\/ rpc = "returned" /\ rpc' # rpc /\ obs.exit = "raised"
        \/ rpc = "navigate" /\ stop_seen = "none" /\ stop_seen' = "exception"
        \/ rpc = "navigate" /\ rpc' # rpc
              /\ recorded'.error_category = "exception")
         => /\ db[idx] = "none" /\ db'[idx] = "failed"
            /\ \A u \in Urls \ {idx} : db'[u] = db[u]
            /\ recorded' = [url |-> idx, status |-> "failed",
                            fields_filled |-> {},
                            error_category |-> "exception"]
            /\ rpc' = "loop_top" /\ idx' = idx + 1]_vars

\* C27: an exception that escapes the agent loop, and an exception handled
\* by the except clause of _process_url while no stop is requested, give
\* the URL its one row, failed / exception, and the run goes on to the
\* next URL; when the except clause of _process_url sees a stop request the
\* URL is left pending without a row and the run ends.
C27_ExceptionRecordedUnlessStopped ==
    /\ [][(\/ rpc = "returned" /\ rpc' # rpc /\ obs.exit = "raised"
           \/ rpc = "navigate" /\ rpc' # rpc
                 /\ recorded'.error_category = "exception")
            => /\ db[idx] = "none" /\ db'[idx] = "failed"
               /\ \A u \in Urls \ {idx} : db'[u] = db[u]
               /\ recorded' = [url |-> idx, status |-> "failed",
                               fields_filled |-> {},
                               error_category |-> "exception"]
               /\ stats'.failed_attempts = stats.failed_attempts + 1
               /\ rpc' = "loop_top" /\ idx' = idx + 1]_vars
    /\ [][(rpc = "navigate" /\ stop_seen = "none"
             /\ stop_seen' = "exception")
            => db' = db /\ recorded' = recorded /\ rpc' = "summary"]_vars

C27_Witness ==
    /\ recorded.error_category = "exception"
    /\ recorded.status = "failed"
    /\ db[recorded.url] = "failed"
    /\ idx = recorded.url + 1
    /\ rpc = "loop_top"
    /\ stop_seen = "none"

\* C28: an iteration that met an empty snapshot, and so executed the
\* planner's own "Page is loading" wait, sends no LLM request and does not
\* give the URL up: unless the submit count or a repeated page error ends
\* the URL, the loop goes on to observe again.
C28_EmptySnapshotDoesNotAbort ==
    (/\ obs.action = PageLoading
     /\ state.submit_attempts < StuckSubmits
     /\ RepeatedErrors(state) = {})
      => /\ ~(obs.exit = "break" /\ ~state.success)
         /\ ~state.stuck_loop_detected
         /\ llm_log = NoLlmLog

\* C29: after any sequence of add_processed_url calls the table holds at
\* most one row per URL, a URL that was passed has its row, and the row
\* carries the status, the filled fields, the error message, the error
\* category and the details of the latest call for the URL; the url ->
\* status table of the run is the status column of these rows.
C29_AddProcessedUrlIsUpsert ==
    call.fn = "add_processed_url" =>
       \A u \in Urls :
          LET mine == {i \in 1..Len(call.rows) : call.rows[i].url = u}
          IN  /\ Cardinality(mine) <= 1
              /\ call.last[u] = <<>> => mine = {} /\ call.view[u] = "none"
              /\ call.last[u] # <<>> =>
                    /\ Cardinality(mine) = 1
                    /\ \A i \in mine :
                          /\ call.rows[i].status = call.last[u][1].status
                          /\ call.rows[i].fields_filled =
                                json_dumps(call.last[u][1].fields_filled)
                          /\ call.rows[i].error_message =
                                call.last[u][1].error_message
                          /\ call.rows[i].error_category =
                                call.last[u][1].error_category
                          /\ call.rows[i].details = call.last[u][1].details
                          /\ call.view[u] = call.rows[i].status

C29_Witness ==
    /\ call.fn = "add_processed_url"
    /\ Len(call.rows) = 2
    /\ call.rows[1].url = KnownUrl
    /\ call.rows[1].source = "csv"
    /\ call.last[KnownUrl] # <<>>
    /\ call.last[KnownUrl][1].source = "database"
    /\ call.last[KnownUrl][1].fields_filled = NoFieldsGiven
    /\ call.rows[1].status = "success"
    /\ call.rows[1].error_category = "None"

\* C30: in a run fed by the queue, a step that writes the row of a URL
\* marks its scraped row processed, so that get_unprocessed_urls returns
\* exactly the URLs without a row; a URL that a stop left without a row is
\* unmarked and is among the URLs the next run is handed.  A run fed by
\* the CSV file leaves the scraped rows alone.
C30_QueueUrlMarkedWithOutcome ==
    /\ [][\A u \in Urls : db'[u] # db[u] =>
             IF data_source = "database"
                THEN /\ db'[u] \in ProcessedStatuses
                     /\ scraped'[u] = 1
                     /\ \A i \in 1..Len(get_unprocessed_urls(scraped', NumUrls)) :
                           get_unprocessed_urls(scraped', NumUrls)[i] # u
                ELSE scraped' = scraped]_vars
    /\ [](data_source = "database" =>
            LET next_run == get_unprocessed_urls(scraped, MaxSignups)
            IN  /\ \A u \in Urls : scraped[u] = 1 <=> db[u] # "none"
                /\ (stop_seen # "none" /\ RunOver /\ stop_idx \in Urls
                       /\ db[stop_idx] = "none") =>
                      /\ scraped[stop_idx] = 0
                      /\ \E i \in 1..Len(next_run) : next_run[i] = stop_idx)

C30_Witness ==
    /\ data_source = "database"
    /\ RunOver
    /\ stop_seen = "step_boundary"
    /\ stop_idx = 2
    /\ db[1] = "failed"
    /\ scraped[1] = 1
    /\ db[2] = "none"
    /\ scraped[2] = 0
    /\ Head(get_unprocessed_urls(scraped, MaxSignups)) = 2

C32_BatchPlanSelectorsExist ==
    (call.fn = "get_batch_plan" /\ call.done) =>
       /\ \A i \in 1..Len(call.plan.actions) :
             call.plan.actions[i].action_type \in {"fill_field", "click"} =>
                validate_selector_exists_in_html(
                   call.plan.actions[i].selector, call.html)
       /\ call.plan.actions = validate_llm_actions(call.plan.actions, call.html)

\* C33: a success verdict of the verifier comes with at least one filled
\* field and at least one real submit, whatever the page shows and however
\* little HTML there is.
C33_VerifierSuccessNeedsFillAndSubmit ==
    (/\ call.fn = "verify_submission"
     /\ call.done
     /\ call.verdict.status = "success")
       => /\ call.context.fields_filled # {}
          /\ call.context.real_submits >= 1

\* C34: a page that fails to load gives the URL a skipped row, not a failed
\* one, and a run that is handed a URL whose row is skipped navigates to it
\* again rather than passing over it as already processed.
C34_LoadErrorCanBeRetried ==
    /\ [][recorded' # recorded /\ recorded'.error_category = "load_error" =>
            /\ recorded'.status = "skipped"
            /\ db'[recorded'.url] = "skipped"]_vars
    /\ [][(rpc = "dedupe" /\ db[idx] = "skipped" /\ ~StopCheck /\ rpc' # rpc)
            => /\ rpc' = "navigate"
               /\ stats'.duplicates_skipped = stats.duplicates_skipped]_vars

\* C35: the step that records an outcome raises consecutive_failures only
\* when the outcome is failed; recording a skipped URL, whatever its
\* category, never raises it.
C35_SkipDoesNotCountAsFailure ==
    [][recorded' # recorded /\ recorded'.status # "failed" =>
          consecutive_failures' <= consecutive_failures]_vars

\* C36: a result reported as success comes from a URL on which a click was
\* performed after a field was filled; a click that no strategy could make
\* is no evidence of a submission.
C36_SuccessHasPerformedClick ==
    (result.returned /\ result.success) => state.clicked_after_fill

\* C37: a planner response that the parser discards on purpose, a fill of
\* the country code, does not end the URL: the loop goes on to ask for
\* another action, and the URL is not returned with category llm_error.
C37_DiscardedResponseIsNoLlmError ==
    llm_log.outcome = "discarded" =>
       /\ rpc = "agent_loop"
       /\ state.llm_failure_reason = ""
       /\ ~(result.returned /\ result.error_category = "llm_error")

\* C38: runs over the queue, one after the other, come to an empty pending
\* set, and a URL a run passed over as a duplicate is not handed out again
\* by get_unprocessed_urls.
C38_QueueDrains ==
    /\ <>(get_unprocessed_urls(call.scraped, NumUrls) = <<>>)
    /\ [][\A u \in call'.duplicates :
             \A i \in 1..Len(get_unprocessed_urls(call'.scraped, NumUrls)) :
                get_unprocessed_urls(call'.scraped, NumUrls)[i] # u]_vars

\* The points of run() outside _process_url.
BetweenUrls == rpc \in {"loop_top", "cooldown", "dedupe", "summary", "done"}

\* The rows of this run with a given status.
RowsWritten(status) == {u \in stats.rows_written : db[u] = status}

\* C39: between URLs and at the end of the run, total_attempts is the
\* number of rows this run wrote, the rows are its successes, its failures
\* and its skips, and neither a URL left pending nor a duplicate has a row
\* of this run.
C39_AttemptsAreRowsWritten ==
    BetweenUrls =>
       /\ stats.total_attempts = Cardinality(stats.rows_written)
       /\ stats.successful_signups = Cardinality(RowsWritten("success"))
       /\ stats.failed_attempts = Cardinality(RowsWritten("failed"))
       /\ stats.total_attempts =
             stats.successful_signups + stats.failed_attempts
                + Cardinality(RowsWritten("skipped"))
       /\ \A u \in stats.rows_written : u < idx
       /\ stats.duplicates_skipped > 0 => KnownUrl \notin stats.rows_written

C39_Witness ==
    /\ rpc = "done"
    /\ stop_seen \notin {"none", "run_loop"}
    /\ idx \in Urls
    /\ idx \notin stats.rows_written
    /\ stats.duplicates_skipped = 1
    /\ stats.successful_signups >= 1
    /\ stats.failed_attempts >= 1
    /\ Cardinality(RowsWritten("skipped")) >= 1

\* C40: for one URL the agent records at most MAX_STEPS actions, the
\* iteration that follows the hand-off to the CAPTCHA handler included.
C40_ActionsBoundedByMaxSteps ==
    state.n_actions <= max_steps

====
